---- MODULE Spec2Model ----
(***************************************************************************)
(* Model of the research-pacs de-identifier: the label / scope evaluator,  *)
(* the mapping store (rpacs_dicom_mapping) and the transformation pipeline *)
(* of DicomDeidentifier, driven by deidentify_dicom_orthanc.               *)
(***************************************************************************)
EXTENDS Integers, Sequences, FiniteSets, TLC

VARIABLES
  sc,       \* the scope-rule evaluator's inputs and result (SpecScope)
  px,       \* an image, the boxes to mask in it and the results (SpecMask)
  heap,     \* the list objects of the configuration file and of the engine (SpecReuse)
  tree,     \* a dataset with sequences, what is asked of it and the results (SpecTree)
  txt,      \* a text value, the RandomizeText entry run on it and the result (SpecSplit)
  cand,     \* a configuration file given to the constructor and the outcome (SpecValidate)
  pat,      \* an element, a tag pattern as written and whether it matches (SpecPattern)
  qry,      \* a label query as written and what the filter compiler made of it (SpecQuery)
  que,      \* the de-identifier's queue, its messages and the source server (SpecQueue)
  pool,     \* the change pooler, the changes of Orthanc and the messages sent (SpecPooler)
  config,   \* which of Configs is the configuration file shared by the workers
  store,    \* world -> rows of the table rpacs_dicom_mapping
  tape,     \* the sequence of raw random draws of a seeded run (<<>>: unseeded)
  orthanc,  \* the answers of the source Orthanc server and of the OCR service
  wk        \* worker -> the driver's and its DicomDeidentifier's state

vars == <<sc, px, heap, tree, txt, cand, pat, qry, que, pool, config, store, tape,
          orthanc, wk>>

None == "None"

\* ------------------------------------------------------------- helpers

InSeq(x, s) == \E i \in DOMAIN s : s[i] = x

Range(s) == {s[i] : i \in DOMAIN s}

\* ------------------------------------------------- scope rule evaluator

\* _get_labels_for_category: the Labels of the first category of that name
get_labels_for_category(cfg, category_name) ==
  LET hits == {i \in DOMAIN cfg.Categories : cfg.Categories[i].Name = category_name}
      first == CHOOSE i \in hits : \A j \in hits : i <= j
  IN cfg.Categories[first].Labels

RECURSIVE labels_of_categories(_, _)
labels_of_categories(cfg, categories) ==
  IF categories = <<>> THEN <<>>
  ELSE get_labels_for_category(cfg, Head(categories))
         \o labels_of_categories(cfg, Tail(categories))

included_labels(cfg, rules) ==
  (IF "Labels" \in DOMAIN rules THEN rules.Labels ELSE <<>>)
    \o (IF "Categories" \in DOMAIN rules
        THEN labels_of_categories(cfg, rules.Categories) ELSE <<>>)

excluded_labels(cfg, rules) ==
  (IF "ExceptLabels" \in DOMAIN rules THEN rules.ExceptLabels ELSE <<>>)
    \o (IF "ExceptCategories" \in DOMAIN rules
        THEN labels_of_categories(cfg, rules.ExceptCategories) ELSE <<>>)

\* A plausible slip: the include loop runs before the exclude loop.
do_labels_match_scope_rules_include_first(cfg, labels, rules) ==
  IF \E i \in DOMAIN labels : InSeq(labels[i], included_labels(cfg, rules)) THEN TRUE
  ELSE FALSE

\* _do_labels_match_scope_rules: the first loop returns False on an excluded
\* label, the second returns True on an included one, False otherwise
do_labels_match_scope_rules(cfg, labels, rules) ==
  IF \E i \in DOMAIN labels : InSeq(labels[i], excluded_labels(cfg, rules)) THEN FALSE
  ELSE IF \E i \in DOMAIN labels : InSeq(labels[i], included_labels(cfg, rules)) THEN TRUE
  ELSE FALSE

\* ------------------------------------------------------------ DICOM data

\* Transfer syntax UIDs: Explicit VR Little Endian (the only one the pixel
\* edit is meant for), Implicit VR Little Endian, JPEG Baseline
ExplicitVRLittleEndian == "1.2.840.10008.1.2.1"
ImplicitVRLittleEndian == "1.2.840.10008.1.2"
JPEGBaseline == "1.2.840.10008.1.2.4.50"

SOPInstanceUID == "00080018"
StudyDate == "00080020"
Modality == "00080060"
PatientName == "00100010"
PatientID == "00100020"
PatientIdentityRemoved == "00120062"
StudyInstanceUID == "0020000D"
SeriesInstanceUID == "0020000E"

\* The data dictionary: the VR of each tag of the model
TagVR ==
  [t \in {SOPInstanceUID, StudyDate, Modality, PatientName, PatientID,
          PatientIdentityRemoved, StudyInstanceUID, SeriesInstanceUID} |->
     CASE t \in {SOPInstanceUID, StudyInstanceUID, SeriesInstanceUID} -> "UI"
       [] t = StudyDate -> "DA"
       [] t = PatientName -> "PN"
       [] t = PatientID -> "LO"
       [] OTHER -> "CS"]

\* A dataset is iterated in ascending tag order
TagOrder ==
  <<SOPInstanceUID, StudyDate, Modality, PatientName, PatientID,
    PatientIdentityRemoved, StudyInstanceUID, SeriesInstanceUID>>

\* _get_elem_tag_hexa: the 8 hexadecimal digits of a tag
get_elem_tag_hexa(tag) ==
  CASE tag = SOPInstanceUID -> <<"0", "0", "0", "8", "0", "0", "1", "8">>
    [] tag = StudyDate -> <<"0", "0", "0", "8", "0", "0", "2", "0">>
    [] tag = Modality -> <<"0", "0", "0", "8", "0", "0", "6", "0">>
    [] tag = PatientName -> <<"0", "0", "1", "0", "0", "0", "1", "0">>
    [] tag = PatientID -> <<"0", "0", "1", "0", "0", "0", "2", "0">>
    [] tag = PatientIdentityRemoved -> <<"0", "0", "1", "2", "0", "0", "6", "2">>
    [] tag = StudyInstanceUID -> <<"0", "0", "2", "0", "0", "0", "0", "D">>
    [] tag = SeriesInstanceUID -> <<"0", "0", "2", "0", "0", "0", "0", "E">>

\* elem.is_empty
is_empty(ds, tag) == ds[tag] = ""

\* ------------------------------------------------------ tag path patterns
\* A tag path pattern is kept split as _split_tag_path_pattern returns it:
\* [prefix, tag_patterns], each tag pattern of type NUMBER (8 characters
\* among 0-9 A-F X @) or VR ({VR}).

OddDigits == {"1", "3", "5", "7", "9", "B", "D", "F"}

\* _tag_hexa_match_pattern
tag_hexa_match_pattern(tag_hexa, pattern) ==
  \A i \in DOMAIN tag_hexa :
    \/ pattern[i] = "X"
    \/ pattern[i] = tag_hexa[i]
    \/ pattern[i] = "@" /\ tag_hexa[i] \in OddDigits

\* _elem_match_tag_pattern, for the NUMBER and {VR} forms
elem_match_tag_pattern(tag, tag_pattern) ==
  \/ tag_pattern.type = "NUMBER"
       /\ tag_hexa_match_pattern(get_elem_tag_hexa(tag), tag_pattern.value)
  \/ tag_pattern.type = "VR" /\ TagVR[tag] = tag_pattern.value

\* _elem_sequence_match_tag_path_pattern; elem_sequence is the chain of tags
\* from the top level to the element
elem_sequence_match_tag_path_pattern(elem_sequence, tag_path_pattern) ==
  LET tag_patterns == tag_path_pattern.tag_patterns
      prefix == tag_path_pattern.prefix
      d == Len(elem_sequence)
      n == Len(tag_patterns)
  IN /\ ~(prefix = "" /\ d # n)
     /\ ~(prefix = "+/" /\ ~(d > n))
     /\ ~(prefix = "*/" /\ ~(d >= n))
     /\ \A i \in 1..n :
          elem_match_tag_pattern(elem_sequence[d + 1 - i], tag_patterns[n + 1 - i])

\* enumerate_elements_match_tag_path_patterns over a dataset without
\* sequences: the matching tags in the order they are yielded
enumerate_elements_match_tag_path_patterns(ds, tag_paths, except_tag_paths) ==
  SelectSeq(TagOrder, LAMBDA tag :
    /\ tag \in DOMAIN ds
    /\ ~\E i \in DOMAIN except_tag_paths :
          elem_sequence_match_tag_path_pattern(<<tag>>, except_tag_paths[i])
    /\ \E i \in DOMAIN tag_paths :
          elem_sequence_match_tag_path_pattern(<<tag>>, tag_paths[i]))

\* Patterns of the configurations below
PatNumber(tag) ==
  [prefix |-> "", tag_patterns |-> <<[type |-> "NUMBER", value |-> get_elem_tag_hexa(tag)]>>]
PatAnyVR(vr) ==
  [prefix |-> "*/", tag_patterns |-> <<[type |-> "VR", value |-> vr]>>]

\* --------------------------------------------------------- mapping store
\* A row of rpacs_dicom_mapping; the primary key is
\* (value_type, old_value, scope_type, scope_value).

same_key(r, value_type, old_value, scope_type, scope_value) ==
  /\ r.value_type = value_type
  /\ r.old_value = old_value
  /\ r.scope_type = scope_type
  /\ r.scope_value = scope_value

\* A plausible slip: the upsert overwrites new_value (DO UPDATE SET
\* new_value=excluded.new_value), so the caller always gets its candidate.
add_or_get_mapping_overwrite(rows, value_type, old_value, new_value, scope_type, scope_value) ==
  LET conflict == {r \in rows : same_key(r, value_type, old_value, scope_type, scope_value)}
      row == [value_type |-> value_type, old_value |-> old_value,
              scope_type |-> scope_type, scope_value |-> scope_value,
              new_value |-> new_value]
  IN [rows |-> (rows \ conflict) \cup {row}, returned |-> new_value]

\* A plausible slip: a plain INSERT ... RETURNING new_value into a table
\* without the unique key, so nothing is looked up.
add_or_get_mapping_no_constraint(rows, value_type, old_value, new_value, scope_type, scope_value) ==
  [rows |-> rows \cup {[value_type |-> value_type, old_value |-> old_value,
                        scope_type |-> scope_type, scope_value |-> scope_value,
                        new_value |-> new_value]},
   returned |-> new_value]

\* DBDicomMapping.add_or_get_mapping: one INSERT ... ON CONFLICT (key) DO UPDATE
\* SET old_value=excluded.old_value RETURNING new_value statement. It yields
\* the table after the statement and the value returned.
add_or_get_mapping(rows, value_type, old_value, new_value, scope_type, scope_value) ==
  LET conflict == {r \in rows : same_key(r, value_type, old_value, scope_type, scope_value)}
      row == [value_type |-> value_type, old_value |-> old_value,
              scope_type |-> scope_type, scope_value |-> scope_value,
              new_value |-> new_value]
  IN IF conflict = {}
     THEN [rows |-> rows \cup {row}, returned |-> new_value]
     ELSE [rows |-> (rows \ conflict)
                      \cup {[r EXCEPT !.old_value = old_value] : r \in conflict},
           returned |-> (CHOOSE r \in conflict : TRUE).new_value]

\* ------------------------------------------------- dates and random draws

\* The calendar around the dates of the model, one string per day in the
\* format %Y%m%d: strptime succeeds on exactly these strings, and a shift by
\* n days moves n places.
Days ==
  <<"20191228", "20191229", "20191230", "20191231", "20200101", "20200102",
    "20200103", "20200104", "20200105">>

\* datetime.strptime(value, '%Y%m%d') raises ValueError on any other string
strptime_ok(value) == InSeq(value, Days)

day_number(value) == CHOOSE i \in DOMAIN Days : Days[i] = value

\* (strptime(old_value, '%Y%m%d') + timedelta(days=shift_value)).strftime('%Y%m%d')
shift_date(old_value, shift_value) == Days[day_number(old_value) + shift_value]

\* The number of distinct outcomes of one random draw
NumRandom == 2

RawDraws == 0..(NumRandom - 1)

\* random.randint(-ShiftBy, +ShiftBy), from a raw draw
randint(raw, ShiftBy) == (raw % (2 * ShiftBy + 1)) - ShiftBy

\* ''.join(random.choice(ascii_letters + digits) for i in range(8))
RandomTexts == <<"kQ3xZp0a", "Tb7mWc2d", "hY5nLe9f">>
random_text(raw) == RandomTexts[raw + 1]

\* pydicom.uid.generate_uid(prefix): the prefix followed by random digits;
\* without a prefix pydicom's own root is used
PydicomRoot == "1.2.826.0.1.3680043.8.498."
ConfigPrefix == "1.2.840.99."
generate_uid(prefix, raw) ==
  IF prefix = ConfigPrefix
  THEN <<"1.2.840.99.11", "1.2.840.99.22", "1.2.840.99.33">>[raw + 1]
  ELSE <<"1.2.826.0.1.3680043.8.498.11", "1.2.826.0.1.3680043.8.498.22",
         "1.2.826.0.1.3680043.8.498.33">>[raw + 1]

\* str.lower() on the texts of the model
lower(value) ==
  CASE value \in {"BOB", "Bob"} -> "bob"
    [] value = "B" -> "b"
    [] value \in {"No", "NO"} -> "no"
    [] value = "P1" -> "p1"
    [] value = "P2" -> "p2"
    [] value = "CT" -> "ct"
    [] value = "MR" -> "mr"
    [] value = "kQ3xZp0a" -> "kq3xzp0a"
    [] value = "Tb7mWc2d" -> "tb7mwc2d"
    [] value = "hY5nLe9f" -> "hy5nle9f"
    [] OTHER -> value

\* ------------------------------------------------------ label evaluation

\* The SELECT jsonb ... @? '$ ? (query)' of a label whose compiled query is
\* one StrEquals condition on a top level tag (case-insensitive)
jsonpath_matches(ds, query) ==
  /\ query.tag \in DOMAIN ds
  /\ lower(ds[query.tag]) = lower(query.value)

RECURSIVE find_matching_labels_from(_, _, _)
find_matching_labels_from(cfg, ds, i) ==
  IF i > Len(cfg.Labels) THEN <<>>
  ELSE LET label == cfg.Labels[i]
           hit == IF "JSONPathQuery" \notin DOMAIN label THEN TRUE
                  ELSE jsonpath_matches(ds, label.JSONPathQuery)
       IN (IF hit THEN <<label.Name>> ELSE <<>>)
            \o find_matching_labels_from(cfg, ds, i + 1)

\* A plausible slip: the list starts empty, without the implicit label.
find_matching_labels_no_all(cfg, ds) == find_matching_labels_from(cfg, ds, 1)

\* _find_matching_labels
find_matching_labels(cfg, ds) == <<"ALL">> \o find_matching_labels_from(cfg, ds, 1)

\* The keys of a dict, in one fixed order
dict_keys(d) ==
  SelectSeq(<<"Labels", "ExceptLabels", "Categories", "ExceptCategories">>,
            LAMBDA k : k \in DOMAIN d)

\* A plausible slip: a Transcode already merged is kept (setdefault).
RECURSIVE merge_transformations_keep_transcode(_, _, _)
merge_transformations_keep_transcode(cfg, labels, i) ==
  IF i = 0 THEN <<>>
  ELSE LET prev == merge_transformations_keep_transcode(cfg, labels, i - 1)
           t == cfg.Transformations[i]
       IN IF ~do_labels_match_scope_rules(cfg, labels, t.Scope) THEN prev
          ELSE [key \in DOMAIN prev \cup DOMAIN t |->
                  IF key \notin DOMAIN t THEN prev[key]
                  ELSE IF key = "Transcode"
                  THEN (IF key \in DOMAIN prev THEN prev[key] ELSE t[key])
                  ELSE (IF key \in DOMAIN prev THEN prev[key] ELSE <<>>)
                         \o (IF key = "Scope" THEN dict_keys(t[key]) ELSE t[key])]

\* The loop of _find_transformations_to_apply over config['Transformations'][1..i]:
\* the dict `transformations` after it. Every key of a matching transformation
\* is merged, 'Scope' included (a list += a dict appends the dict's keys).
RECURSIVE merge_transformations(_, _, _)
merge_transformations(cfg, labels, i) ==
  IF i = 0 THEN <<>>
  ELSE LET prev == merge_transformations(cfg, labels, i - 1)
           t == cfg.Transformations[i]
       IN IF ~do_labels_match_scope_rules(cfg, labels, t.Scope) THEN prev
          ELSE [key \in DOMAIN prev \cup DOMAIN t |->
                  IF key \notin DOMAIN t THEN prev[key]
                  ELSE IF key = "Transcode" THEN t[key]
                  ELSE (IF key \in DOMAIN prev THEN prev[key] ELSE <<>>)
                         \o (IF key = "Scope" THEN dict_keys(t[key]) ELSE t[key])]

\* A plausible slip: the OCR test sits outside the test of the Scope.
find_transformations_to_apply_ocr_anywhere(cfg, labels) ==
  LET applied == {i \in DOMAIN cfg.Transformations :
                    do_labels_match_scope_rules(cfg, labels, cfg.Transformations[i].Scope)}
      with_rbia == {i \in applied :
                      "RemoveBurnedInAnnotations" \in DOMAIN cfg.Transformations[i]}
      any_rbia == {i \in DOMAIN cfg.Transformations :
                     "RemoveBurnedInAnnotations" \in DOMAIN cfg.Transformations[i]}
  IN [transformations |-> merge_transformations(cfg, labels, Len(cfg.Transformations)),
      remove_burned_in_annotations |-> with_rbia # {},
      use_ocr |-> \E i \in any_rbia :
                    \E j \in DOMAIN cfg.Transformations[i].RemoveBurnedInAnnotations :
                      cfg.Transformations[i].RemoveBurnedInAnnotations[j].Type = "OCR"]

\* _find_transformations_to_apply
find_transformations_to_apply(cfg, labels) ==
  LET applied == {i \in DOMAIN cfg.Transformations :
                    do_labels_match_scope_rules(cfg, labels, cfg.Transformations[i].Scope)}
      with_rbia == {i \in applied :
                      "RemoveBurnedInAnnotations" \in DOMAIN cfg.Transformations[i]}
  IN [transformations |-> merge_transformations(cfg, labels, Len(cfg.Transformations)),
      remove_burned_in_annotations |-> with_rbia # {},
      use_ocr |-> \E i \in with_rbia :
                    \E j \in DOMAIN cfg.Transformations[i].RemoveBurnedInAnnotations :
                      cfg.Transformations[i].RemoveBurnedInAnnotations[j].Type = "OCR"]

\* ------------------------------------------------ apply_transformations

op_list(transformations, kind) ==
  IF kind \in DOMAIN transformations THEN transformations[kind] ELSE <<>>

\* The test made on each enumerated element before it is processed
is_processed(kind, ds, tag) ==
  CASE kind = "ShiftDateTime" -> TagVR[tag] \in {"DA", "DT", "TM"} /\ ~is_empty(ds, tag)
    [] kind = "RandomizeText" -> ~is_empty(ds, tag)
    [] kind = "RandomizeUID" -> TagVR[tag] = "UI" /\ ~is_empty(ds, tag)

\* for t in self._transformations[kind]: for elem in enumerate_elements_...:
\* the (entry, element) pairs processed, in order, from entry e on
RECURSIVE section_items(_, _, _, _)
section_items(kind, ds, ts, e) ==
  IF e > Len(ts) THEN <<>>
  ELSE LET matched == enumerate_elements_match_tag_path_patterns(
                        ds, ts[e].TagPatterns, ts[e].ExceptTagPatterns)
           kept == SelectSeq(matched, LAMBDA tag : is_processed(kind, ds, tag))
       IN [i \in 1..Len(kept) |-> [kind |-> kind, entry |-> e, tag |-> kept[i]]]
            \o section_items(kind, ds, ts, e + 1)

\* A plausible slip: the RandomizeUID section placed before RandomizeText.
mapping_items_uid_first(transformations, ds) ==
  section_items("ShiftDateTime", ds, op_list(transformations, "ShiftDateTime"), 1)
    \o section_items("RandomizeUID", ds, op_list(transformations, "RandomizeUID"), 1)
    \o section_items("RandomizeText", ds, op_list(transformations, "RandomizeText"), 1)

\* The three sections that draw random values and call the mapping store:
\* ShiftDateTime, then RandomizeText, then RandomizeUID
mapping_items(transformations, ds) ==
  section_items("ShiftDateTime", ds, op_list(transformations, "ShiftDateTime"), 1)
    \o section_items("RandomizeText", ds, op_list(transformations, "RandomizeText"), 1)
    \o section_items("RandomizeUID", ds, op_list(transformations, "RandomizeUID"), 1)

AttributeError == "AttributeError"

\* self.dicom.<keyword>
attribute(ds, tag) == IF tag \in DOMAIN ds THEN ds[tag] ELSE AttributeError

\* The scope chosen by _get_new_value_from_mapping for t['ReuseMapping']
mapping_scope(reuse, old_patient_id, ds) ==
  CASE reuse = "Always" -> [scope_type |-> "always", scope_value |-> "always"]
    [] reuse = "SamePatient" ->
         [scope_type |-> "patient",
          scope_value |-> IF old_patient_id # None THEN old_patient_id
                          ELSE attribute(ds, PatientID)]
    [] reuse = "SameStudy" ->
         [scope_type |-> "study", scope_value |-> attribute(ds, StudyInstanceUID)]
    [] reuse = "SameSeries" ->
         [scope_type |-> "series", scope_value |-> attribute(ds, SeriesInstanceUID)]
    [] OTHER -> [scope_type |-> "study", scope_value |-> attribute(ds, SOPInstanceUID)]

NoCall == [made |-> FALSE]

\* A plausible slip: no test of the scope value before the lookup.
get_new_value_from_mapping_no_test(t, old_patient_id, ds, rows, value_type, old_value, new_value) ==
  IF "ReuseMapping" \in DOMAIN t
  THEN LET scope == mapping_scope(t.ReuseMapping, old_patient_id, ds)
           res == add_or_get_mapping(rows, value_type, old_value, new_value,
                                     scope.scope_type, scope.scope_value)
       IN [raised |-> FALSE, rows |-> res.rows, value |-> res.returned,
           call |-> [made |-> TRUE, value_type |-> value_type,
                     old_value |-> old_value, new_value |-> new_value,
                     scope_type |-> scope.scope_type,
                     scope_value |-> scope.scope_value,
                     returned |-> res.returned, reuse |-> t.ReuseMapping]]
  ELSE [raised |-> FALSE, rows |-> rows, value |-> new_value, call |-> NoCall]

\* A plausible slip: an entry without ReuseMapping is looked up as Always.
get_new_value_from_mapping_default_always(t, old_patient_id, ds, rows, value_type, old_value, new_value) ==
  LET scope == mapping_scope(IF "ReuseMapping" \in DOMAIN t THEN t.ReuseMapping ELSE "Always",
                             old_patient_id, ds)
      res == add_or_get_mapping(rows, value_type, old_value, new_value,
                                scope.scope_type, scope.scope_value)
  IN IF scope.scope_value \in {"", AttributeError}
     THEN [raised |-> TRUE, rows |-> rows, value |-> None, call |-> NoCall]
     ELSE [raised |-> FALSE, rows |-> res.rows, value |-> res.returned,
           call |-> [made |-> TRUE, value_type |-> value_type,
                     old_value |-> old_value, new_value |-> new_value,
                     scope_type |-> scope.scope_type,
                     scope_value |-> scope.scope_value,
                     returned |-> res.returned,
                     reuse |-> IF "ReuseMapping" \in DOMAIN t THEN t.ReuseMapping
                               ELSE "Always"]]

\* _get_new_value_from_mapping: [raised, rows, value, call], where call records
\* the add_or_get_mapping call made, if any
get_new_value_from_mapping(t, old_patient_id, ds, rows, value_type, old_value, new_value) ==
  IF "ReuseMapping" \in DOMAIN t
  THEN LET scope == mapping_scope(t.ReuseMapping, old_patient_id, ds)
           res == add_or_get_mapping(rows, value_type, old_value, new_value,
                                     scope.scope_type, scope.scope_value)
       IN IF scope.scope_value \in {"", AttributeError}
          THEN [raised |-> TRUE, rows |-> rows, value |-> None, call |-> NoCall]
          ELSE [raised |-> FALSE, rows |-> res.rows, value |-> res.returned,
                call |-> [made |-> TRUE, value_type |-> value_type,
                          old_value |-> old_value, new_value |-> new_value,
                          scope_type |-> scope.scope_type,
                          scope_value |-> scope.scope_value,
                          returned |-> res.returned, reuse |-> t.ReuseMapping]]
  ELSE [raised |-> FALSE, rows |-> rows, value |-> new_value, call |-> NoCall]

\* The exception handler of apply_transformations: the error is raised again
raised(s, rows) == [s |-> [s EXCEPT !.pc = "failed"], rows |-> rows]

\* One entry of logs['TransformationsApplied'], with the mapping call behind
\* it: its key, its scope and what it returned
log_t(item, old_value, new_value, call) ==
  [kind |-> item.kind, entry |-> item.entry, tag |-> item.tag,
   OldValue |-> old_value, NewValue |-> new_value,
   call |-> IF call.made
            THEN [made |-> TRUE, value_type |-> call.value_type,
                  old_value |-> call.old_value, scope_type |-> call.scope_type,
                  scope_value |-> call.scope_value, returned |-> call.returned,
                  reuse |-> call.reuse]
            ELSE NoCall]

\* A seeded generator yields the tape, over and over
next_pos(s) == IF tape = <<>> THEN s.pos ELSE (s.pos % Len(tape)) + 1

\* shift_date_time on the element of `item`, with the raw draw `raw`
shift_date_time(s, rows, raw, item) ==
  LET t == s.transformations.ShiftDateTime[item.entry]
      ds == s.dicom.ds
      old_value == ds[item.tag]
      drawn == [s EXCEPT !.pos = next_pos(s)]
  IN IF ~strptime_ok(old_value) THEN raised(drawn, rows)
     ELSE LET new_value == shift_date(old_value, randint(raw, t.ShiftBy))
              m == get_new_value_from_mapping(t, s.old_patient_id, ds, rows,
                                              "DATETIME", old_value, new_value)
          IN IF m.raised THEN raised(drawn, rows)
             ELSE [s |-> [drawn EXCEPT !.dicom.ds[item.tag] = m.value,
                                       !.cursor = @ + 1,
                                       !.last_call = m.call,
                                       !.logs = Append(@, log_t(item, old_value, m.value, m.call))],
                   rows |-> m.rows]

\* randomize_text on the element of `item`; PatientID is kept first. The value
\* is one segment: t['Split'] is None or a string, so `t['Split'] is True` is
\* false and the value is never split.
randomize_text(s, rows, raw, item) ==
  LET t == s.transformations.RandomizeText[item.entry]
      ds == s.dicom.ds
      old_value_before_split == ds[item.tag]
      old_patient_id == IF item.tag = PatientID THEN ds[item.tag] ELSE s.old_patient_id
      old_value == IF t.IgnoreCase THEN lower(old_value_before_split)
                   ELSE old_value_before_split
      m == get_new_value_from_mapping(t, old_patient_id, ds, rows,
                                      "DATETIME", old_value, random_text(raw))
      drawn == [s EXCEPT !.pos = next_pos(s), !.old_patient_id = old_patient_id]
  IN IF m.raised THEN raised(drawn, rows)
     ELSE [s |-> [drawn EXCEPT !.dicom.ds[item.tag] = m.value,
                               !.cursor = @ + 1,
                               !.last_call = m.call,
                               !.logs = Append(@, log_t(item, old_value_before_split,
                                                        m.value, m.call))],
           rows |-> m.rows]

\* A plausible slip: the random UID is written without the mapping lookup.
randomize_uid_no_mapping(s, rows, raw, item) ==
  LET t == s.transformations.RandomizeUID[item.entry]
      old_uid == s.dicom.ds[item.tag]
      random_uid == generate_uid(IF "Prefix" \in DOMAIN t THEN t.Prefix ELSE PydicomRoot, raw)
  IN [s |-> [s EXCEPT !.pos = next_pos(s),
                      !.dicom.ds[item.tag] = random_uid,
                      !.dicom.MediaStorageSOPInstanceUID =
                         IF item.tag = SOPInstanceUID THEN random_uid ELSE @,
                      !.cursor = @ + 1,
                      !.last_call = NoCall,
                      !.logs = Append(@, log_t(item, old_uid, random_uid, NoCall))],
      rows |-> rows]

\* A plausible slip: the file meta header is not updated with SOPInstanceUID.
randomize_uid_no_file_meta(s, rows, raw, item) ==
  LET t == s.transformations.RandomizeUID[item.entry]
      old_uid == s.dicom.ds[item.tag]
      random_uid == generate_uid(IF "Prefix" \in DOMAIN t THEN t.Prefix ELSE PydicomRoot, raw)
      res == add_or_get_mapping(rows, "UID", old_uid, random_uid, "always", "always")
      new_uid == res.returned
      call == [made |-> TRUE, value_type |-> "UID", old_value |-> old_uid,
               new_value |-> random_uid, scope_type |-> "always",
               scope_value |-> "always", returned |-> new_uid, reuse |-> None]
  IN [s |-> [s EXCEPT !.pos = next_pos(s),
                      !.dicom.ds[item.tag] = new_uid,
                      !.cursor = @ + 1,
                      !.last_call = call,
                      !.logs = Append(@, log_t(item, old_uid, new_uid, call))],
      rows |-> res.rows]

\* randomize_uid on the element of `item`
randomize_uid(s, rows, raw, item) ==
  LET t == s.transformations.RandomizeUID[item.entry]
      old_uid == s.dicom.ds[item.tag]
      random_uid == generate_uid(IF "Prefix" \in DOMAIN t THEN t.Prefix ELSE PydicomRoot, raw)
      res == add_or_get_mapping(rows, "UID", old_uid, random_uid, "always", "always")
      new_uid == res.returned
      call == [made |-> TRUE, value_type |-> "UID", old_value |-> old_uid,
               new_value |-> random_uid, scope_type |-> "always",
               scope_value |-> "always", returned |-> new_uid, reuse |-> None]
  IN [s |-> [s EXCEPT !.pos = next_pos(s),
                      !.dicom.ds[item.tag] = new_uid,
                      !.dicom.MediaStorageSOPInstanceUID =
                         IF item.tag = SOPInstanceUID THEN new_uid ELSE @,
                      !.cursor = @ + 1,
                      !.last_call = call,
                      !.logs = Append(@, log_t(item, old_uid, new_uid, call))],
      rows |-> res.rows]

\* The element processed at the cursor, by the section it belongs to
process_item(s, rows, raw) ==
  LET item == s.items[s.cursor]
  IN CASE item.kind = "ShiftDateTime" -> shift_date_time(s, rows, raw, item)
       [] item.kind = "RandomizeText" -> randomize_text(s, rows, raw, item)
       [] item.kind = "RandomizeUID" -> randomize_uid(s, rows, raw, item)

\* The AddTags section on top level tag paths: the dataset after the entries
RECURSIVE add_tags(_, _)
add_tags(ds, ts) ==
  IF ts = <<>> THEN ds
  ELSE LET t == Head(ts)
       IN add_tags(IF t.Tag \in DOMAIN ds /\ ~t.OverwriteIfExists THEN ds
                   ELSE [tag \in DOMAIN ds \cup {t.Tag} |->
                           IF tag = t.Tag THEN t.Value ELSE ds[tag]],
                   Tail(ts))

\* The DeleteTags section: the dataset after the entries
RECURSIVE delete_tags(_, _)
delete_tags(ds, ts) ==
  IF ts = <<>> THEN ds
  ELSE LET t == Head(ts)
           matched == Range(enumerate_elements_match_tag_path_patterns(
                              ds, t.TagPatterns, t.ExceptTagPatterns))
       IN delete_tags(IF t.Action = "Remove"
                      THEN [tag \in DOMAIN ds \ matched |-> ds[tag]]
                      ELSE [tag \in DOMAIN ds |-> IF tag \in matched THEN "" ELSE ds[tag]],
                      Tail(ts))

\* The kinds logged by the sections after RandomizeUID, in the order the
\* sections run: _log_t is called in AddTags, RemoveBurnedInAnnotations (once
\* per box, so only with boxes), DeleteTags (once per element), Transcode
has_boxes(ts) ==
  \E i \in DOMAIN ts : "BoxCoordinates" \in DOMAIN ts[i] /\ ts[i].BoxCoordinates # <<>>

has_deleted(ds, ts) ==
  \E i \in DOMAIN ts :
    enumerate_elements_match_tag_path_patterns(ds, ts[i].TagPatterns, ts[i].ExceptTagPatterns) # <<>>

section_log(kind) ==
  [kind |-> kind, entry |-> 0, tag |-> None, OldValue |-> None, NewValue |-> None,
   call |-> NoCall]

\* ------------------------------------------------------------ pixel data
\* A numpy array is [shape, dtype, at]: `at` gives the value at each index, a
\* tuple of numbers from 0. PixelData is a sequence of bytes.

Max(a, b) == IF a >= b THEN a ELSE b
Min(a, b) == IF a <= b THEN a ELSE b

RECURSIVE prod(_)
prod(shape) == IF shape = <<>> THEN 1 ELSE Head(shape) * prod(Tail(shape))

RECURSIVE max_of(_)
max_of(shape) == IF shape = <<>> THEN 0 ELSE Max(Head(shape), max_of(Tail(shape)))

Indices(shape) ==
  {t \in [DOMAIN shape -> 0..(max_of(shape) - 1)] : \A i \in DOMAIN shape : t[i] < shape[i]}

\* The place of an index in the row-major (C order) buffer of an array
RECURSIVE ravel(_, _, _)
ravel(t, shape, i) ==
  IF i > Len(shape) THEN 0
  ELSE t[i] * prod(SubSeq(shape, i + 1, Len(shape))) + ravel(t, shape, i + 1)

itemsize(dtype) == IF dtype \in {"uint8", "int8"} THEN 1 ELSE 2

signed(dtype) == dtype \in {"int8", "int16"}

\* The little-endian bytes of one value
to_bytes(v, dtype) ==
  LET u == (v + 65536) % (IF itemsize(dtype) = 1 THEN 256 ELSE 65536)
  IN IF itemsize(dtype) = 1 THEN <<u>> ELSE <<u % 256, u \div 256>>

\* The value of the bytes of one item
from_bytes(bytes, dtype) ==
  LET u == IF itemsize(dtype) = 1 THEN bytes[1] ELSE bytes[1] + 256 * bytes[2]
      half == IF itemsize(dtype) = 1 THEN 128 ELSE 32768
  IN IF signed(dtype) /\ u >= half THEN u - 2 * half ELSE u

\* The index whose place in the row-major buffer is k
unravel(k, shape) ==
  [i \in DOMAIN shape |-> (k \div prod(SubSeq(shape, i + 1, Len(shape)))) % shape[i]]

\* ndarray.tobytes()
tobytes(a) ==
  LET n == prod(a.shape)
      value(k) == a.at[unravel(k, a.shape)]
      isz == itemsize(a.dtype)
  IN [b \in 1..(n * isz) |->
        to_bytes(value((b - 1) \div isz), a.dtype)[((b - 1) % isz) + 1]]

\* np.ones(shape, dtype=np.uint8)
np_ones(shape) == [shape |-> shape, dtype |-> "uint8", at |-> [t \in Indices(shape) |-> 1]]

\* The dtype of the product of a uint8 array and an array of `dtype`
result_type(dtype) == IF dtype = "int8" THEN "int16" ELSE dtype

\* mask * pixels for arrays of the same number of dimensions: the shapes
\* are broadcast, a dimension of 1 being stretched; ValueError otherwise
np_multiply(mask, pixels) ==
  LET dims == DOMAIN pixels.shape
      fits == \A i \in dims :
                \/ mask.shape[i] = pixels.shape[i]
                \/ mask.shape[i] = 1
                \/ pixels.shape[i] = 1
      shape == [i \in dims |-> Max(mask.shape[i], pixels.shape[i])]
      of(a, t) == a.at[[i \in dims |-> IF a.shape[i] = 1 THEN 0 ELSE t[i]]]
  IN IF ~fits THEN [raised |-> TRUE]
     ELSE [raised |-> FALSE,
           array |-> [shape |-> shape, dtype |-> result_type(pixels.dtype),
                      at |-> [t \in Indices(shape) |-> of(mask, t) * of(pixels, t)]]]

\* The dtype pydicom reads the pixel data with
pixel_dtype(dicom) ==
  IF dicom.BitsAllocated = 8
  THEN (IF dicom.PixelRepresentation = 1 THEN "int8" ELSE "uint8")
  ELSE (IF dicom.PixelRepresentation = 1 THEN "int16" ELSE "uint16")

\* dataset.pixel_array of an uncompressed instance: (frames, rows, columns,
\* samples) without the frames of a single frame and the samples of a single
\* sample. Too few bytes raise ValueError; bytes in excess are left out.
pixel_array(dicom) ==
  LET shape == (IF dicom.NumberOfFrames > 1 THEN <<dicom.NumberOfFrames>> ELSE <<>>)
                 \o <<dicom.Rows, dicom.Columns>>
                 \o (IF dicom.SamplesPerPixel > 1 THEN <<dicom.SamplesPerPixel>> ELSE <<>>)
      dtype == pixel_dtype(dicom)
      isz == itemsize(dtype)
  IN IF Len(dicom.PixelData) < prod(shape) * isz THEN [raised |-> TRUE]
     ELSE [raised |-> FALSE,
           array |-> [shape |-> shape, dtype |-> dtype,
                      at |-> [t \in Indices(shape) |->
                                from_bytes(SubSeq(dicom.PixelData,
                                                  ravel(t, shape, 1) * isz + 1,
                                                  ravel(t, shape, 1) * isz + isz),
                                           dtype)]]]

\* The boxes of every entry that has BoxCoordinates, in order
RECURSIVE all_boxes(_)
all_boxes(ts) ==
  IF ts = <<>> THEN <<>>
  ELSE (IF "BoxCoordinates" \in DOMAIN Head(ts) THEN Head(ts).BoxCoordinates ELSE <<>>)
         \o all_boxes(Tail(ts))

\* Which of the four forms the code takes the pixel array for
mask_form(pixels, samples_per_pixel) ==
  IF Len(pixels.shape) = 4 THEN "frames, Y, X, channel"
  ELSE IF Len(pixels.shape) = 3 /\ pixels.shape[3] = samples_per_pixel THEN "Y, X, channel"
  ELSE IF Len(pixels.shape) = 3 THEN "frames, Y, X"
  ELSE "Y, X"

\* The slices of the mask a box stands for, after its coordinates are
\* brought into [0, width-1] and [0, height-1]
box_slices(form, width, height, box) ==
  LET box_left == Max(0, Min(width - 1, box[1]))
      box_top == Max(0, Min(height - 1, box[2]))
      box_right == Max(0, Min(width - 1, box[3]))
      box_bottom == Max(0, Min(height - 1, box[4]))
      rows == <<box_top, box_bottom>>
      cols == <<box_left, box_right>>
      first == <<0, 1>>
  IN CASE form = "frames, Y, X, channel" -> <<first, rows, cols, first>>
       [] form = "Y, X, channel" -> <<rows, cols, first>>
       [] form = "frames, Y, X" -> <<first, rows, cols>>
       [] OTHER -> <<rows, cols>>

in_slices(t, slices) ==
  \A i \in DOMAIN slices : slices[i][1] <= t[i] /\ t[i] < slices[i][2]

\* A plausible slip: the boxes flip the mask (mask[...] ^= 1).
RECURSIVE edit_mask_flip(_, _, _, _, _)
edit_mask_flip(mask, form, width, height, boxes) ==
  IF boxes = <<>> THEN mask
  ELSE edit_mask_flip([mask EXCEPT !.at = [t \in DOMAIN mask.at |->
                         IF in_slices(t, box_slices(form, width, height, Head(boxes)))
                         THEN 1 - mask.at[t] ELSE mask.at[t]]],
                      form, width, height, Tail(boxes))

\* mask[...] = 0 for the boxes, one after the other
RECURSIVE edit_mask(_, _, _, _, _)
edit_mask(mask, form, width, height, boxes) ==
  IF boxes = <<>> THEN mask
  ELSE edit_mask([mask EXCEPT !.at = [t \in DOMAIN mask.at |->
                    IF in_slices(t, box_slices(form, width, height, Head(boxes)))
                    THEN 0 ELSE mask.at[t]]],
                 form, width, height, Tail(boxes))

\* The mask of ones, the boxes put to zero in it, and new_pixels = mask *
\* pixels: [raised, array]
mask_pixels(pixels, width, height, samples_per_pixel, ts) ==
  LET form == mask_form(pixels, samples_per_pixel)
      ones == CASE form = "frames, Y, X, channel" -> np_ones(<<1, height, width, 1>>)
                [] form = "Y, X, channel" -> np_ones(<<height, width, 1>>)
                [] form = "frames, Y, X" -> np_ones(<<1, height, width>>)
                [] OTHER -> np_ones(<<height, width>>)
  IN np_multiply(edit_mask(ones, form, width, height, all_boxes(ts)), pixels)

\* The RemoveBurnedInAnnotations section on an instance whose pixel data can
\* be decoded: [raised, dicom]
remove_burned_in_annotations(dicom, ts) ==
  LET read == pixel_array(dicom)
      pixels == read.array
      new_pixels == mask_pixels(pixels, dicom.Columns, dicom.Rows, dicom.SamplesPerPixel, ts)
  IN IF read.raised THEN [raised |-> TRUE, dicom |-> dicom]
     ELSE IF new_pixels.raised THEN [raised |-> TRUE, dicom |-> dicom]
     ELSE [raised |-> FALSE,
           dicom |-> [dicom EXCEPT !.PixelData = tobytes(new_pixels.array),
                                   !.BitsAllocated = itemsize(pixels.dtype) * 8,
                                   !.BitsStored = itemsize(pixels.dtype) * 8,
                                   !.HighBit = itemsize(pixels.dtype) * 8 - 1]]

\* dataset.pixel_array: pydicom decodes the uncompressed transfer syntaxes
\* itself and a compressed one only with a handler installed for it
pixel_array_ok(s) ==
  s.dicom.TransferSyntaxUID \in {ExplicitVRLittleEndian, ImplicitVRLittleEndian} \cup s.handlers

\* A plausible slip: without Transcode the destination is the syntax of the
\* dataset at hand, not the one recorded at load.
dst_transfer_syntax_current(s) ==
  IF "Transcode" \in DOMAIN s.transformations THEN s.transformations.Transcode
  ELSE s.dicom.TransferSyntaxUID

\* dst_transfer_syntax at the end of apply_transformations
dst_transfer_syntax(s) ==
  IF "Transcode" \in DOMAIN s.transformations THEN s.transformations.Transcode
  ELSE s.src_transfer_syntax

\* apply_transformations from the AddTags section to its return
apply_sections_after_uid(s) ==
  LET tr == s.transformations
      added == add_tags(s.dicom.ds, op_list(tr, "AddTags"))
      masking == "RemoveBurnedInAnnotations" \in DOMAIN tr
      deleted == delete_tags(added, op_list(tr, "DeleteTags"))
      dst == dst_transfer_syntax(s)
      logs1 == s.logs \o (IF op_list(tr, "AddTags") # <<>> THEN <<section_log("AddTags")>> ELSE <<>>)
      logs2 == logs1 \o (IF masking /\ has_boxes(tr.RemoveBurnedInAnnotations)
                         THEN <<section_log("RemoveBurnedInAnnotations")>> ELSE <<>>)
      logs3 == logs2 \o (IF has_deleted(added, op_list(tr, "DeleteTags"))
                         THEN <<section_log("DeleteTags")>> ELSE <<>>)
      logs4 == logs3 \o (IF "Transcode" \in DOMAIN tr THEN <<section_log("Transcode")>> ELSE <<>>)
      masked == IF masking /\ pixel_array_ok(s)
                THEN remove_burned_in_annotations(s.dicom, tr.RemoveBurnedInAnnotations)
                ELSE [raised |-> FALSE, dicom |-> s.dicom]
  IN IF masking /\ (~pixel_array_ok(s) \/ masked.raised)
     THEN [s EXCEPT !.pc = "failed", !.dicom.ds = added, !.logs = logs1]
     ELSE [s EXCEPT !.pc = "applied",
                    !.dicom = [masked.dicom EXCEPT !.ds = deleted],
                    !.masked_with = IF masking THEN s.dicom.TransferSyntaxUID ELSE @,
                    !.logs = logs4,
                    !.returned = IF s.dicom.TransferSyntaxUID = dst THEN None ELSE dst]

\* ------------------------------------------------------- configurations

Workers == {"w1", "w2"}

ConfigLabels ==
  <<[Name |-> "CT", JSONPathQuery |-> [tag |-> Modality, value |-> "CT"]],
    [Name |-> "MR", JSONPathQuery |-> [tag |-> Modality, value |-> "MR"]],
    [Name |-> "SERIES2", JSONPathQuery |-> [tag |-> SeriesInstanceUID, value |-> "1.2.3.1.2"]],
    [Name |-> "ANY"]>>

ConfigCategories ==
  <<[Name |-> "Blocked", Labels |-> <<"MR">>],
    [Name |-> "Scans", Labels |-> <<"CT", "MR">>]>>

No == <<>>

\* RandomizeUID: for CT every UI element but SOPInstanceUID with a Prefix and
\* then SeriesInstanceUID again; for MR the study and series UIDs
ConfigUID ==
  [Labels |-> ConfigLabels, Categories |-> ConfigCategories,
   ScopeToForward |-> [Labels |-> <<"ALL">>],
   Transformations |-> <<
     [Scope |-> [Labels |-> <<"CT">>],
      RandomizeUID |-> <<[TagPatterns |-> <<PatAnyVR("UI")>>,
                          ExceptTagPatterns |-> <<PatNumber(SOPInstanceUID)>>,
                          Prefix |-> ConfigPrefix],
                         [TagPatterns |-> <<PatNumber(SeriesInstanceUID)>>,
                          ExceptTagPatterns |-> No]>>],
     [Scope |-> [Labels |-> <<"MR">>],
      RandomizeUID |-> <<[TagPatterns |-> <<PatNumber(StudyInstanceUID),
                                            PatNumber(SeriesInstanceUID)>>,
                          ExceptTagPatterns |-> No]>>]>>]

\* SamePatient mappings after the randomization of PatientID, which for CT is
\* matched by a second RandomizeText entry; MR instances are not forwarded
ConfigPatient ==
  [Labels |-> ConfigLabels, Categories |-> ConfigCategories,
   ScopeToForward |-> [Labels |-> <<"ALL">>, ExceptCategories |-> <<"Blocked">>],
   Transformations |-> <<
     [Scope |-> [Labels |-> <<"ALL">>],
      RandomizeText |-> <<[TagPatterns |-> <<PatNumber(PatientID)>>,
                           ExceptTagPatterns |-> No, Split |-> None,
                           IgnoreCase |-> FALSE]>>],
     [Scope |-> [Labels |-> <<"CT">>],
      RandomizeText |-> <<[TagPatterns |-> <<PatNumber(PatientID)>>,
                           ExceptTagPatterns |-> No, Split |-> None,
                           IgnoreCase |-> FALSE, ReuseMapping |-> "SamePatient"]>>],
     [Scope |-> [Labels |-> <<"ANY">>],
      RandomizeText |-> <<[TagPatterns |-> <<PatNumber(PatientName)>>,
                           ExceptTagPatterns |-> No, Split |-> None,
                           IgnoreCase |-> TRUE, ReuseMapping |-> "SamePatient"]>>]>>]

\* The reuse scopes of a study and of an instance
ConfigScopes ==
  [Labels |-> ConfigLabels, Categories |-> ConfigCategories,
   ScopeToForward |-> [Labels |-> <<"ANY">>],
   Transformations |-> <<
     [Scope |-> [Labels |-> <<"ALL">>],
      ShiftDateTime |-> <<[TagPatterns |-> <<PatAnyVR("DA")>>,
                           ExceptTagPatterns |-> No, ShiftBy |-> 1,
                           ReuseMapping |-> "SameStudy"]>>,
      RandomizeText |-> <<[TagPatterns |-> <<PatNumber(Modality)>>,
                           ExceptTagPatterns |-> No, Split |-> None,
                           IgnoreCase |-> FALSE, ReuseMapping |-> "SameInstance"]>>]>>]

\* The reuse scope of a series, and the one shared by all instances
ConfigSeries ==
  [Labels |-> ConfigLabels, Categories |-> ConfigCategories,
   ScopeToForward |-> [Categories |-> <<"Scans", "Blocked">>],
   Transformations |-> <<
     [Scope |-> [Categories |-> <<"Scans">>],
      RandomizeText |-> <<[TagPatterns |-> <<PatNumber(PatientName)>>,
                           ExceptTagPatterns |-> No, Split |-> None,
                           IgnoreCase |-> TRUE, ReuseMapping |-> "SameSeries"],
                          [TagPatterns |-> <<PatNumber(PatientID)>>,
                           ExceptTagPatterns |-> No, Split |-> None,
                           IgnoreCase |-> FALSE, ReuseMapping |-> "Always"]>>]>>]

\* Every kind of operation; OCR and another destination transfer syntax for
\* the second series
ConfigPixels ==
  [Labels |-> ConfigLabels, Categories |-> ConfigCategories,
   ScopeToForward |-> [Categories |-> <<"Scans">>],
   Transformations |-> <<
     [Scope |-> [Labels |-> <<"ALL">>],
      ShiftDateTime |-> <<[TagPatterns |-> <<PatNumber(StudyDate)>>,
                           ExceptTagPatterns |-> No, ShiftBy |-> 1,
                           ReuseMapping |-> "Always"]>>,
      RandomizeText |-> <<[TagPatterns |-> <<PatNumber(PatientName)>>,
                           ExceptTagPatterns |-> No, Split |-> None,
                           IgnoreCase |-> FALSE]>>,
      RandomizeUID |-> <<[TagPatterns |-> <<PatNumber(SOPInstanceUID)>>,
                          ExceptTagPatterns |-> No]>>,
      AddTags |-> <<[Tag |-> PatientIdentityRemoved, VR |-> "CS", Value |-> "YES",
                     OverwriteIfExists |-> FALSE]>>,
      RemoveBurnedInAnnotations |-> <<[Type |-> "Manual",
                                       BoxCoordinates |-> <<<<1, 1, 3, 3>>>>]>>,
      DeleteTags |-> <<[TagPatterns |-> <<PatNumber(PatientIdentityRemoved),
                                          PatNumber(Modality)>>,
                        ExceptTagPatterns |-> No, Action |-> "Remove"]>>,
      Transcode |-> ExplicitVRLittleEndian],
     [Scope |-> [Labels |-> <<"ANY">>, ExceptLabels |-> <<"MR">>, Categories |-> <<"Blocked">>],
      DeleteTags |-> <<[TagPatterns |-> <<PatAnyVR("PN")>>,
                        ExceptTagPatterns |-> No, Action |-> "Empty"]>>],
     [Scope |-> [Labels |-> <<"SERIES2">>],
      RemoveBurnedInAnnotations |-> <<[Type |-> "OCR"]>>,
      Transcode |-> ImplicitVRLittleEndian]>>]

\* A text and a date under the one scope of Always, and every UI element of
\* the second series
ConfigDates ==
  [Labels |-> ConfigLabels, Categories |-> ConfigCategories,
   ScopeToForward |-> [Labels |-> <<"ALL">>],
   Transformations |-> <<
     [Scope |-> [Labels |-> <<"MR">>],
      RandomizeText |-> <<[TagPatterns |-> <<PatNumber(PatientID)>>,
                           ExceptTagPatterns |-> No, Split |-> None,
                           IgnoreCase |-> FALSE, ReuseMapping |-> "Always"]>>],
     [Scope |-> [Labels |-> <<"CT">>],
      ShiftDateTime |-> <<[TagPatterns |-> <<PatNumber(StudyDate)>>,
                           ExceptTagPatterns |-> No, ShiftBy |-> 1,
                           ReuseMapping |-> "Always"]>>],
     [Scope |-> [Labels |-> <<"SERIES2">>],
      RandomizeUID |-> <<[TagPatterns |-> <<PatAnyVR("UI")>>,
                          ExceptTagPatterns |-> No]>>]>>]

\* Pixels to mask in every instance and the OCR for the second series; only
\* CT instances are forwarded
ConfigOcr ==
  [Labels |-> ConfigLabels, Categories |-> ConfigCategories,
   ScopeToForward |-> [Labels |-> <<"CT">>],
   Transformations |-> <<
     [Scope |-> [Labels |-> <<"ALL">>],
      RemoveBurnedInAnnotations |-> <<[Type |-> "Manual",
                                       BoxCoordinates |-> <<<<0, 0, 2, 2>>>>]>>],
     [Scope |-> [Labels |-> <<"SERIES2">>],
      RemoveBurnedInAnnotations |-> <<[Type |-> "OCR"]>>]>>]

\* The name and the study date with a mapping for CT and without one for MR
ConfigFresh ==
  [Labels |-> ConfigLabels, Categories |-> ConfigCategories,
   ScopeToForward |-> [Labels |-> <<"ALL">>],
   Transformations |-> <<
     [Scope |-> [Labels |-> <<"CT">>],
      ShiftDateTime |-> <<[TagPatterns |-> <<PatNumber(StudyDate)>>,
                           ExceptTagPatterns |-> No, ShiftBy |-> 1,
                           ReuseMapping |-> "Always"]>>,
      RandomizeText |-> <<[TagPatterns |-> <<PatNumber(PatientName)>>,
                           ExceptTagPatterns |-> No, Split |-> None,
                           IgnoreCase |-> TRUE, ReuseMapping |-> "Always"]>>],
     [Scope |-> [Labels |-> <<"MR">>],
      ShiftDateTime |-> <<[TagPatterns |-> <<PatNumber(StudyDate)>>,
                           ExceptTagPatterns |-> No, ShiftBy |-> 1]>>,
      RandomizeText |-> <<[TagPatterns |-> <<PatNumber(PatientName)>>,
                           ExceptTagPatterns |-> No, Split |-> None,
                           IgnoreCase |-> TRUE]>>]>>]

Configs ==
  <<ConfigUID, ConfigPatient, ConfigScopes, ConfigSeries, ConfigPixels, ConfigDates,
    ConfigOcr, ConfigFresh>>

\* The configuration file of the deployment
Config == Configs[config]

\* --------------------------------------------------------------- instances

\* An instance with a 4 x 4 image of one frame and one sample of 8 bits, all 255
Instance(modality, patient, study, series, sop, name, ts) ==
  [ds |-> (SOPInstanceUID :> sop) @@ (StudyDate :> "20200101") @@ (Modality :> modality)
            @@ (PatientName :> name) @@ (PatientID :> patient)
            @@ (StudyInstanceUID :> study) @@ (SeriesInstanceUID :> series),
   TransferSyntaxUID |-> ts,
   MediaStorageSOPInstanceUID |-> sop,
   NumberOfFrames |-> 1, Rows |-> 4, Columns |-> 4, SamplesPerPixel |-> 1,
   BitsAllocated |-> 8, BitsStored |-> 8, HighBit |-> 7, PixelRepresentation |-> 0,
   PixelData |-> [b \in 1..16 |-> 255]]

\* Three instances of one study, then two with empty identifiers: one without
\* PatientID and StudyInstanceUID, one whose PatientID reads as a date and
\* whose SeriesInstanceUID and SOPInstanceUID are empty
Instances ==
  <<Instance("CT", "P1", "1.2.3.1", "1.2.3.1.1", "1.2.3.1.1.1", "Bob", ExplicitVRLittleEndian),
    Instance("MR", "P1", "1.2.3.1", "1.2.3.1.1", "1.2.3.1.1.2", "BOB", JPEGBaseline),
    Instance("CT", "P1", "1.2.3.1", "1.2.3.1.2", "1.2.3.1.2.1", "Bob", ImplicitVRLittleEndian),
    Instance("CT", "", "", "1.2.3.1.1", "1.2.3.1.1.4", "Bob", ExplicitVRLittleEndian),
    Instance("MR", "20200101", "1.2.3.1", "", "", "BOB", ExplicitVRLittleEndian)>>

\* The instances with every identifier, and the others
Usual == {1, 2, 3}
Rare == DOMAIN Instances \ Usual

\* ------------------------------------------------------ DicomDeidentifier

\* A plausible slip: the transformations are looked for before the skip test.
load_dicom_always_compute(s, dicom, src_transfer_syntax, initial_load) ==
  LET loaded == [s EXCEPT !.dicom = dicom,
                          !.src_transfer_syntax =
                             IF src_transfer_syntax # None THEN src_transfer_syntax
                             ELSE dicom.TransferSyntaxUID]
      matching_labels == find_matching_labels(Config, dicom.ds)
      skipped == ~do_labels_match_scope_rules(Config, matching_labels, Config.ScopeToForward)
      found == find_transformations_to_apply(Config, matching_labels)
  IN IF ~initial_load THEN [loaded EXCEPT !.load_returned = <<s.matching_labels, FALSE>>]
     ELSE [loaded EXCEPT !.matching_labels = matching_labels,
                         !.transformations = found.transformations,
                         !.remove_burned_in_annotations = found.remove_burned_in_annotations,
                         !.use_ocr = found.use_ocr,
                         !.load_returned = <<matching_labels, skipped>>,
                         !.pc = IF skipped THEN "skipped" ELSE @]

\* A plausible slip: a reload finds the labels and the transformations again.
load_dicom_recompute(s, dicom, src_transfer_syntax, initial_load) ==
  LET loaded == [s EXCEPT !.dicom = dicom,
                          !.src_transfer_syntax =
                             IF src_transfer_syntax # None THEN src_transfer_syntax
                             ELSE dicom.TransferSyntaxUID]
      matching_labels == find_matching_labels(Config, dicom.ds)
      skipped == ~do_labels_match_scope_rules(Config, matching_labels, Config.ScopeToForward)
      found == find_transformations_to_apply(Config, matching_labels)
  IN IF skipped
     THEN [loaded EXCEPT !.matching_labels = matching_labels,
                         !.load_returned = <<matching_labels, initial_load>>,
                         !.pc = IF initial_load THEN "skipped" ELSE @]
     ELSE [loaded EXCEPT !.matching_labels = matching_labels,
                         !.transformations = found.transformations,
                         !.remove_burned_in_annotations = found.remove_burned_in_annotations,
                         !.use_ocr = found.use_ocr,
                         !.load_returned = <<matching_labels, FALSE>>]

\* load_dicom: the worker after the call, load_returned being what the call
\* returned; pc = "skipped" stands for the driver's return on skipped = True
load_dicom(s, dicom, src_transfer_syntax, initial_load) ==
  LET loaded == [s EXCEPT !.dicom = dicom,
                          !.src_transfer_syntax =
                             IF src_transfer_syntax # None THEN src_transfer_syntax
                             ELSE dicom.TransferSyntaxUID]
      matching_labels == find_matching_labels(Config, dicom.ds)
      skipped == ~do_labels_match_scope_rules(Config, matching_labels, Config.ScopeToForward)
      found == find_transformations_to_apply(Config, matching_labels)
  IN IF ~initial_load THEN [loaded EXCEPT !.load_returned = <<s.matching_labels, FALSE>>]
     ELSE IF skipped
     THEN [loaded EXCEPT !.matching_labels = matching_labels,
                         !.load_returned = <<matching_labels, TRUE>>,
                         !.pc = "skipped"]
     ELSE [loaded EXCEPT !.matching_labels = matching_labels,
                         !.transformations = found.transformations,
                         !.remove_burned_in_annotations = found.remove_burned_in_annotations,
                         !.use_ocr = found.use_ocr,
                         !.load_returned = <<matching_labels, FALSE>>]

\* A plausible slip: the test of what was found for the pixel data is left out.
is_transcoding_needed_any(s) ==
  IF s.dicom.TransferSyntaxUID # ExplicitVRLittleEndian
  THEN <<TRUE, s.dicom.TransferSyntaxUID>>
  ELSE <<FALSE, None>>

is_transcoding_needed(s) ==
  IF s.remove_burned_in_annotations /\ s.dicom.TransferSyntaxUID # ExplicitVRLittleEndian
  THEN <<TRUE, s.dicom.TransferSyntaxUID>>
  ELSE <<FALSE, None>>

is_ocr_needed(s) == s.use_ocr

add_box_coordinates(s, boxes) ==
  [s EXCEPT !.transformations.RemoveBurnedInAnnotations =
              Append(@, [Type |-> "FromOCR", BoxCoordinates |-> boxes])]

\* ------------------------------------------------- deidentify_dicom_orthanc

\* A worker before deidentify_dicom_orthanc(instance_id, src_dicom, config, logs)
NewWorker(world, instance_id, handlers) ==
  [pc |-> "start", world |-> world, pos |-> 1, handlers |-> handlers,
   instance_id |-> instance_id,
   dicom |-> None, src_transfer_syntax |-> None, matching_labels |-> <<>>,
   load_returned |-> <<>>,
   transformations |-> <<>>, remove_burned_in_annotations |-> FALSE,
   use_ocr |-> FALSE, old_patient_id |-> None, items |-> <<>>, cursor |-> 0,
   logs |-> <<>>, last_call |-> NoCall,
   returned |-> None, reloaded |-> FALSE, masked_with |-> None]

\* A plausible slip: a generator the seed does not reach.
Draws_unseeded(s) == RawDraws

\* The raw draws the next random call can give
Draws(s) == IF tape = <<>> THEN RawDraws ELSE {tape[s.pos]}

\* The boxes the OCR service can find
BoxAnswers == {<<>>, <<<<0, 0, 2, 2>>>>}

\* A plausible slip: the OCR is asked before the transcoded instance.
after_load_ocr_first(s) ==
  IF is_ocr_needed(s) THEN "ocr"
  ELSE IF is_transcoding_needed(s)[1] THEN "transcode" ELSE "apply_call"

\* The next call the driver makes after is_transcoding_needed / is_ocr_needed
after_load(s) ==
  IF is_transcoding_needed(s)[1] THEN "transcode"
  ELSE IF is_ocr_needed(s) THEN "ocr" ELSE "apply_call"

\* DicomDeidentifier(...), load_dicom(src_dicom), `if skipped is True: return None`
LoadDicom(w) ==
  /\ wk[w].pc = "start"
  /\ LET s == load_dicom(wk[w], Instances[wk[w].instance_id], None, TRUE)
     IN wk' = [wk EXCEPT ![w] = IF s.pc = "skipped" THEN s
                                ELSE [s EXCEPT !.pc = after_load(s)]]
  /\ UNCHANGED <<sc, px, heap, tree, txt, cand, pat, qry, que, pool, config, store, tape, orthanc>>

\* download_instance_dicom(instance_id, transcode='1.2.840.10008.1.2.1') and
\* load_dicom(src_dicom, src_transfer_syntax, initial_load=False); Orthanc can
\* fail to transcode
DriverTranscode(w) ==
  /\ wk[w].pc = "transcode"
  /\ \E ok \in (IF orthanc.fixed THEN {orthanc.transcodes} ELSE BOOLEAN) :
       LET s == wk[w]
           src_dicom == [Instances[s.instance_id] EXCEPT
                           !.TransferSyntaxUID = ExplicitVRLittleEndian]
           r == load_dicom(s, src_dicom, is_transcoding_needed(s)[2], FALSE)
       IN wk' = [wk EXCEPT ![w] =
                   IF ok THEN [r EXCEPT !.reloaded = TRUE,
                                        !.pc = IF is_ocr_needed(r) THEN "ocr" ELSE "apply_call"]
                   ELSE [s EXCEPT !.pc = "failed"]]
  /\ UNCHANGED <<sc, px, heap, tree, txt, cand, pat, qry, que, pool, config, store, tape, orthanc>>

\* get_box_coordinates(...) and add_box_coordinates(boxes); the OCR can fail
DriverOcr(w) ==
  /\ wk[w].pc = "ocr"
  /\ \/ \E boxes \in (IF orthanc.fixed THEN {orthanc.boxes} ELSE BoxAnswers) :
          wk' = [wk EXCEPT ![w] = [add_box_coordinates(wk[w], boxes) EXCEPT !.pc = "apply_call"]]
     \/ /\ ~orthanc.fixed
        /\ wk' = [wk EXCEPT ![w].pc = "failed"]
  /\ UNCHANGED <<sc, px, heap, tree, txt, cand, pat, qry, que, pool, config, store, tape, orthanc>>

\* The call of apply_transformations, up to the first section. `items` are
\* the elements its first three sections go through: the sections change
\* values only, never to an empty one, so what each `for elem in
\* enumerate_elements_match_tag_path_patterns(...)` yields is known here.
ApplyBegin(w) ==
  /\ wk[w].pc = "apply_call"
  /\ wk' = [wk EXCEPT ![w].pc = "apply", ![w].old_patient_id = None, ![w].cursor = 1,
                      ![w].items = mapping_items(wk[w].transformations, wk[w].dicom.ds)]
  /\ UNCHANGED <<sc, px, heap, tree, txt, cand, pat, qry, que, pool, config, store, tape, orthanc>>

\* One element of the ShiftDateTime, RandomizeText or RandomizeUID section
ApplyItem(w) ==
  /\ wk[w].pc = "apply"
  /\ wk[w].cursor <= Len(wk[w].items)
  /\ \E raw \in Draws(wk[w]) :
       LET r == process_item(wk[w], store[wk[w].world], raw)
       IN /\ wk' = [wk EXCEPT ![w] = r.s]
          /\ store' = [store EXCEPT ![wk[w].world] = r.rows]
  /\ UNCHANGED <<sc, px, heap, tree, txt, cand, pat, qry, que, pool, config, tape, orthanc>>

\* The sections after RandomizeUID and the return of apply_transformations
ApplyFinish(w) ==
  /\ wk[w].pc = "apply"
  /\ wk[w].cursor > Len(wk[w].items)
  /\ wk' = [wk EXCEPT ![w] = apply_sections_after_uid(wk[w])]
  /\ UNCHANGED <<sc, px, heap, tree, txt, cand, pat, qry, que, pool, config, store, tape, orthanc>>

\* set_sop_instance_uid(dicom) with a random UID
set_sop_instance_uid(dicom, raw) ==
  [dicom EXCEPT !.ds[SOPInstanceUID] = generate_uid(PydicomRoot, raw),
                !.MediaStorageSOPInstanceUID = generate_uid(PydicomRoot, raw)]

\* export_dicom and the return of dst_dicom; when a transfer syntax was
\* returned, the SOPInstanceUID is replaced and s3_write_file(dicom_file,
\* location, ...) raises NameError: 'Failed to transcode the de-identified ...'
DriverExport(w) ==
  /\ wk[w].pc = "applied"
  /\ IF wk[w].returned = None
     THEN wk' = [wk EXCEPT ![w].pc = "done"]
     ELSE \E raw \in Draws(wk[w]) :
            wk' = [wk EXCEPT ![w].pc = "failed",
                             ![w].pos = next_pos(wk[w]),
                             ![w].dicom = set_sop_instance_uid(@, raw)]
  /\ UNCHANGED <<sc, px, heap, tree, txt, cand, pat, qry, que, pool, config, store, tape, orthanc>>

\* ---------------------------------------------------------- specification

NoScope == [labels |-> <<>>, rules |-> [Labels |-> <<>>], result |-> FALSE, done |-> TRUE]

NoPixels == [did |-> {}]

NoHeap == [ref |-> "none", at |-> 1, own |-> <<>>, config |-> <<>>]

NoTree == [did |-> {}]

NoCandidate == [done |-> TRUE, raised |-> FALSE]

NoText == [done |-> TRUE]

NoPattern == [done |-> TRUE]

NoQuery == [done |-> TRUE]

NoQueue == [messages |-> <<>>]

NoPooler == [changes |-> <<>>]

AnyAnswer == [fixed |-> FALSE]

Worlds == {1, 2}

\* Two workers of one deployment: one configuration file, one mapping table
Init ==
  /\ sc = NoScope
  /\ px = NoPixels
  /\ heap = NoHeap
  /\ tree = NoTree
  /\ txt = NoText
  /\ cand = NoCandidate
  /\ pat = NoPattern
  /\ qry = NoQuery
  /\ que = NoQueue
  /\ pool = NoPooler
  /\ config \in DOMAIN Configs
  /\ store = [world \in Worlds |-> {}]
  /\ tape = <<>>
  /\ orthanc = AnyAnswer
  /\ \E i, j \in Usual :
       /\ i <= j
       /\ wk = [w \in Workers |-> NewWorker(1, IF w = "w1" THEN i ELSE j, {})]

Next ==
  \E w \in Workers :
    \/ LoadDicom(w)
    \/ DriverTranscode(w)
    \/ DriverOcr(w)
    \/ ApplyBegin(w)
    \/ ApplyItem(w)
    \/ ApplyFinish(w)
    \/ DriverExport(w)

Spec == Init /\ [][Next]_vars

\* Two workers of one deployment, one of them given an instance with empty
\* identifiers
InitRare ==
  /\ sc = NoScope
  /\ px = NoPixels
  /\ heap = NoHeap
  /\ tree = NoTree
  /\ txt = NoText
  /\ cand = NoCandidate
  /\ pat = NoPattern
  /\ qry = NoQuery
  /\ que = NoQueue
  /\ pool = NoPooler
  /\ config \in DOMAIN Configs
  /\ store = [world \in Worlds |-> {}]
  /\ tape = <<>>
  /\ orthanc = AnyAnswer
  /\ \E i \in DOMAIN Instances, j \in Rare :
       /\ i <= j
       /\ wk = [w \in Workers |-> NewWorker(1, IF w = "w1" THEN i ELSE j, {})]

SpecRare == InitRare /\ [][Next]_vars

\* ------------------------------------------- the scope rule evaluator alone

MaxLabels == 2

ScopeLabelNames == {"ALL", "CT", "MR"}

ScopeLabelLists ==
  UNION {[1..n -> ScopeLabelNames] : n \in 0..MaxLabels}

Absent == <<None>>

\* A rules dict: each of the four attributes is optional
Rules(labels, categories, except_labels, except_categories) ==
  LET opt(key, v) == IF v = Absent THEN <<>> ELSE key :> v
  IN opt("Labels", labels) @@ opt("Categories", categories)
       @@ opt("ExceptLabels", except_labels)
       @@ opt("ExceptCategories", except_categories)

ScopeRules ==
  {Rules(l, c, el, ec) :
     l \in {Absent, <<"ALL">>, <<"CT">>, <<"MR", "CT">>},
     c \in {Absent, <<"Blocked">>, <<"Scans">>},
     el \in {Absent, <<"MR">>, <<"ALL">>},
     ec \in {Absent, <<"Blocked">>, <<"Scans", "Blocked">>}}

IdleWorkers == [w \in Workers |-> NewWorker(1, 1, {})]

InitScope ==
  /\ sc \in [labels : ScopeLabelLists, rules : ScopeRules, result : {FALSE}, done : {FALSE}]
  /\ px = NoPixels
  /\ heap = NoHeap
  /\ tree = NoTree
  /\ txt = NoText
  /\ cand = NoCandidate
  /\ pat = NoPattern
  /\ qry = NoQuery
  /\ que = NoQueue
  /\ pool = NoPooler
  /\ config \in DOMAIN Configs
  /\ store = [world \in Worlds |-> {}]
  /\ tape = <<>>
  /\ orthanc = AnyAnswer
  /\ wk = IdleWorkers

\* One call of _do_labels_match_scope_rules(labels, rules)
Evaluate ==
  /\ ~sc.done
  /\ sc' = [sc EXCEPT !.result = do_labels_match_scope_rules(Config, sc.labels, sc.rules),
                      !.done = TRUE]
  /\ UNCHANGED <<px, heap, tree, txt, cand, pat, qry, que, pool, config, store, tape, orthanc, wk>>

NextScope == Evaluate

SpecScope == InitScope /\ [][NextScope]_vars

\* The labels a category of the configuration file names
CategoryLabels(name) ==
  UNION {Range(Config.Categories[i].Labels) :
           i \in {j \in DOMAIN Config.Categories : Config.Categories[j].Name = name}}

\* The included and the excluded names of a rule, as sets
IncludedNames(rules) ==
  (IF "Labels" \in DOMAIN rules THEN Range(rules.Labels) ELSE {})
    \cup (IF "Categories" \in DOMAIN rules
          THEN UNION {CategoryLabels(c) : c \in Range(rules.Categories)} ELSE {})

ExcludedNames(rules) ==
  (IF "ExceptLabels" \in DOMAIN rules THEN Range(rules.ExceptLabels) ELSE {})
    \cup (IF "ExceptCategories" \in DOMAIN rules
          THEN UNION {CategoryLabels(c) : c \in Range(rules.ExceptCategories)} ELSE {})

Satisfies(labels, rules) ==
  /\ Range(labels) \cap IncludedNames(rules) # {}
  /\ Range(labels) \cap ExcludedNames(rules) = {}

\* C1: _do_labels_match_scope_rules(L, R) is true iff some label of L is among
\* R's included names (Labels and the labels of its Categories) and no label
\* of L is among R's excluded names (ExceptLabels and the labels of its
\* ExceptCategories); an excluded label makes it false whatever is included.
C1_ScopeRule ==
  sc.done =>
    /\ sc.result = Satisfies(sc.labels, sc.rules)
    /\ (Range(sc.labels) \cap ExcludedNames(sc.rules) # {} => ~sc.result)

\* C1, its case: a label list with an included and an excluded label was
\* evaluated, the excluded one through a category
C1_Witness ==
  /\ sc.done
  /\ ~sc.result
  /\ Range(sc.labels) \cap IncludedNames(sc.rules) # {}
  /\ "ExceptLabels" \notin DOMAIN sc.rules
  /\ Range(sc.labels) \cap ExcludedNames(sc.rules) # {}

\* ------------------------------------------------------- the mapping store

\* The add_or_get_mapping calls a worker has made so far
CallsOf(w) ==
  {wk[w].logs[i].call : i \in {j \in DOMAIN wk[w].logs : wk[w].logs[j].call.made}}

CallKey(c) == <<c.value_type, c.old_value, c.scope_type, c.scope_value>>

RowKey(r) == <<r.value_type, r.old_value, r.scope_type, r.scope_value>>

\* The call a worker makes in this step, if it makes one, with its candidate
CallsNow(w) ==
  IF Len(wk'[w].logs) = Len(wk[w].logs) + 1 /\ wk'[w].logs[Len(wk'[w].logs)].call.made
  THEN {wk'[w].last_call}
  ELSE {}

C2_Step ==
  \A world \in Worlds :
    /\ \A r \in store[world] : r \in store'[world]
    /\ \A r \in store'[world] \ store[world] :
         /\ \A q \in store[world] : RowKey(q) # RowKey(r)
         /\ \E w \in Workers :
              /\ wk[w].world = world
              /\ \E c \in CallsNow(w) :
                   CallKey(c) = RowKey(r) /\ c.new_value = r.new_value

\* C2: the mapping store is monotonic. No step removes a row or changes the
\* new_value stored for a key; a row appears only for a key that was absent,
\* and its new_value is the candidate of the call that inserts it.
C2_Monotonic == [][C2_Step]_vars

\* C2, its case: a key was looked up again with another candidate, and the
\* row still holds the value the first call got, which the later call got too
C2_Witness ==
  \E a, b \in Workers :
    /\ a # b
    /\ wk[b].last_call.made
    /\ wk[b].last_call.new_value # wk[b].last_call.returned
    /\ \E ca \in CallsOf(a) :
         /\ CallKey(ca) = CallKey(wk[b].last_call)
         /\ ca.returned = wk[b].last_call.returned
         /\ \E r \in store[wk[a].world] :
              RowKey(r) = CallKey(ca) /\ r.new_value = ca.returned

C3_State ==
  \A a, b \in Workers :
    (a # b /\ wk[a].world = wk[b].world) =>
      \A ca \in CallsOf(a), cb \in CallsOf(b) :
        CallKey(ca) = CallKey(cb) =>
          /\ ca.returned = cb.returned
          /\ {r.new_value : r \in {q \in store[wk[a].world] : RowKey(q) = CallKey(ca)}}
               = {ca.returned}
          /\ Cardinality({r \in store[wk[a].world] : RowKey(r) = CallKey(ca)}) = 1

C3_Step ==
  \A w \in Workers :
    \A c \in CallsNow(w) :
      LET rows == store[wk[w].world]
          found == {r \in rows : RowKey(r) = CallKey(c)}
      IN IF found = {}
         THEN /\ c.returned = c.new_value
              /\ store'[wk[w].world] =
                   rows \cup {[value_type |-> c.value_type, old_value |-> c.old_value,
                               scope_type |-> c.scope_type, scope_value |-> c.scope_value,
                               new_value |-> c.new_value]}
         ELSE /\ \A r \in found : c.returned = r.new_value
              /\ store'[wk[w].world] = rows

\* C3: add_or_get_mapping is one atomic step. With the key absent it inserts
\* the candidate and returns it, otherwise it returns the stored new_value;
\* so two workers that call it with the same key get the same value, the
\* candidate of the one that came first, and the table holds exactly one row
\* for the key.
C3_Atomic == [](C3_State) /\ [][C3_Step]_vars

\* C3, its case: both workers are inside apply_transformations and have
\* called add_or_get_mapping with the same key; the second came with another
\* candidate and got the value of the first
C3_Witness ==
  /\ \A w \in Workers : wk[w].pc = "apply"
  /\ \E ca \in CallsOf("w1"), cb \in CallsOf("w2") :
       /\ CallKey(ca) = CallKey(cb)
       /\ ca.returned = cb.returned
       /\ \E w \in Workers :
            /\ wk[w].last_call.made
            /\ CallKey(wk[w].last_call) = CallKey(ca)
            /\ wk[w].last_call.new_value # ca.returned

\* ------------------------------------------------------------ the outputs

\* The dataset of the instance a worker was given
Src(w) == Instances[wk[w].instance_id].ds

\* apply_transformations has returned: wk[w].dicom is the de-identified instance
HasOutput(w) == wk[w].pc \in {"applied", "done"}

LogsOf(w, kinds) ==
  {wk[w].logs[i] : i \in {j \in DOMAIN wk[w].logs : wk[w].logs[j].kind \in kinds}}

\* How many RandomizeUID entries replace the element `tag` of a worker's instance
UidCount(w, tag) ==
  Cardinality({i \in DOMAIN wk[w].items :
                 wk[w].items[i].kind = "RandomizeUID" /\ wk[w].items[i].tag = tag})

UidTags == {tag \in DOMAIN TagVR : TagVR[tag] = "UI"}

SameScope(reuse, a, b) ==
  CASE reuse = "Always" -> TRUE
    [] reuse = "SamePatient" -> Src(a)[PatientID] = Src(b)[PatientID]
    [] reuse = "SameStudy" -> Src(a)[StudyInstanceUID] = Src(b)[StudyInstanceUID]
    [] reuse = "SameSeries" -> Src(a)[SeriesInstanceUID] = Src(b)[SeriesInstanceUID]
    [] reuse = "SameInstance" -> Src(a)[SOPInstanceUID] = Src(b)[SOPInstanceUID]

\* The replacements of original values made under ReuseMapping
ReuseLogs(w) ==
  {e \in LogsOf(w, {"ShiftDateTime", "RandomizeText"}) :
     e.call.made /\ e.OldValue = Src(w)[e.tag]}

\* C5: under ReuseMapping, two occurrences of the same original value in the
\* same scope (any two instances for Always, the same original PatientID for
\* SamePatient, the same study, series or instance UID for the others) get
\* the same new value, whatever is drawn and in whatever order.
C5_ScopedStability ==
  \A a, b \in Workers :
    \A ea \in ReuseLogs(a), eb \in ReuseLogs(b) :
      (/\ ea.call.reuse = eb.call.reuse
       /\ ea.call.old_value = eb.call.old_value
       /\ SameScope(ea.call.reuse, a, b))
        => ea.NewValue = eb.NewValue

\* C10: every lookup made under ReuseMapping = SamePatient in one pass uses
\* as scope_value the PatientID the instance had before any randomization.
C10_OriginalPatientScope ==
  \A w \in Workers :
    \A c \in CallsOf(w) :
      c.reuse = "SamePatient" => c.scope_value = Src(w)[PatientID]

\* The values the PatientID element of a worker's instance has held: the
\* one it was given with and the ones RandomizeText found in it
PatientIDs(w) ==
  {Src(w)[PatientID]}
    \cup {e.OldValue : e \in {l \in LogsOf(w, {"RandomizeText"}) : l.tag = PatientID}}

\* The scopes the table of ReuseMapping allows for a lookup of a worker
TableScopes(reuse, w) ==
  CASE reuse = "Always" -> {<<"always", "always">>}
    [] reuse = "SamePatient" -> {<<"patient", id>> : id \in PatientIDs(w)}
    [] reuse = "SameStudy" -> {<<"study", Src(w)[StudyInstanceUID]>>}
    [] reuse = "SameSeries" -> {<<"series", Src(w)[SeriesInstanceUID]>>}
    [] reuse = "SameInstance" -> {<<"instance", Src(w)[SOPInstanceUID]>>}

\* C11: the lookup made for an entry with ReuseMapping uses the scope of the
\* table: Always -> (always, "always"), SamePatient -> (patient, PatientID),
\* SameStudy -> (study, StudyInstanceUID), SameSeries -> (series,
\* SeriesInstanceUID), SameInstance -> (instance, SOPInstanceUID). Which of
\* its values PatientID stands for is the matter of C10.
C11_ReuseScope ==
  \A w \in Workers :
    \A c \in CallsOf(w) :
      c.reuse # None => <<c.scope_type, c.scope_value>> \in TableScopes(c.reuse, w)

\* The element whose value is the scope of a reuse mode other than Always
ScopeTag(reuse) ==
  CASE reuse = "SamePatient" -> PatientID
    [] reuse = "SameStudy" -> StudyInstanceUID
    [] reuse = "SameSeries" -> SeriesInstanceUID
    [] reuse = "SameInstance" -> SOPInstanceUID

\* The entry of the op-set behind the element a worker processes next
NextEntry(w) ==
  wk[w].transformations[wk[w].items[wk[w].cursor].kind][wk[w].items[wk[w].cursor].entry]

\* The next element of a worker needs a lookup in a scope other than Always,
\* and the instance has an empty value for that scope
EmptyScopeNext(w) ==
  /\ wk[w].cursor \in DOMAIN wk[w].items
  /\ wk[w].items[wk[w].cursor].kind \in {"ShiftDateTime", "RandomizeText"}
  /\ "ReuseMapping" \in DOMAIN NextEntry(w)
  /\ NextEntry(w).ReuseMapping # "Always"
  /\ Src(w)[ScopeTag(NextEntry(w).ReuseMapping)] = ""

C12_State ==
  /\ \A w \in Workers : \A c \in CallsOf(w) :
       c.scope_type # "always" => c.scope_value # ""
  /\ \A world \in Worlds : \A r \in store[world] :
       r.scope_type # "always" => r.scope_value # ""

C12_Step ==
  \A w \in Workers :
    (wk[w].pc = "apply" /\ EmptyScopeNext(w) /\ wk'[w] # wk[w]) =>
      /\ wk'[w].pc = "failed"
      /\ wk'[w].logs = wk[w].logs
      /\ store' = store

\* C12: a lookup in a scope other than Always whose scope value is the empty
\* string (empty PatientID, StudyInstanceUID, SeriesInstanceUID or
\* SOPInstanceUID) fails: apply_transformations raises, and no row is written
\* for the lookup.
C12_EmptyScope == [](C12_State) /\ [][C12_Step]_vars

\* C12, its case: both workers have failed at such a lookup, one for an empty
\* StudyInstanceUID or PatientID, the other for an empty SOPInstanceUID or
\* SeriesInstanceUID, and rows of earlier lookups are in the table
C12_Witness ==
  /\ \A w \in Workers : wk[w].pc = "failed" /\ EmptyScopeNext(w)
  /\ NextEntry("w1").ReuseMapping \in {"SameStudy", "SamePatient"}
  /\ NextEntry("w2").ReuseMapping \in {"SameInstance", "SameSeries"}
  /\ store[1] # {}

\* The RandomizeUID log entries of a worker for the top level SOPInstanceUID:
\* their places in the log
SopUidLogs(w) ==
  {i \in DOMAIN wk[w].logs :
     wk[w].logs[i].kind = "RandomizeUID" /\ wk[w].logs[i].tag = SOPInstanceUID}

\* The op-set of a worker has a RandomizeUID entry over */{UI} without exception
RandomizesEveryUID(w) ==
  \E i \in DOMAIN op_list(wk[w].transformations, "RandomizeUID") :
    /\ InSeq(PatAnyVR("UI"), wk[w].transformations.RandomizeUID[i].TagPatterns)
    /\ wk[w].transformations.RandomizeUID[i].ExceptTagPatterns = <<>>

\* C13: in and after apply_transformations, MediaStorageSOPInstanceUID of the
\* file meta header is another value than the instance came with iff
\* RandomizeUID has processed the top level SOPInstanceUID, and it is then the
\* new UID written to SOPInstanceUID; otherwise it is unchanged. With a
\* RandomizeUID entry over */{UI} the output has MediaStorageSOPInstanceUID =
\* SOPInstanceUID.
C13_FileMeta ==
  \A w \in Workers :
    wk[w].pc \in {"apply", "applied", "done"} =>
      /\ IF SopUidLogs(w) = {}
         THEN wk[w].dicom.MediaStorageSOPInstanceUID
                = Instances[wk[w].instance_id].MediaStorageSOPInstanceUID
         ELSE LET last == CHOOSE i \in SopUidLogs(w) : \A j \in SopUidLogs(w) : j <= i
              IN /\ wk[w].dicom.MediaStorageSOPInstanceUID = wk[w].logs[last].NewValue
                 /\ wk[w].logs[last].NewValue # Src(w)[SOPInstanceUID]
                 /\ SOPInstanceUID \in DOMAIN wk[w].dicom.ds
                      => wk[w].dicom.ds[SOPInstanceUID] = wk[w].logs[last].NewValue
      /\ (HasOutput(w) /\ RandomizesEveryUID(w)) =>
           wk[w].dicom.MediaStorageSOPInstanceUID = wk[w].dicom.ds[SOPInstanceUID]

\* C13, its case: one instance is done after RandomizeUID over */{UI} with a
\* new SOPInstanceUID in the dataset and in the file meta header; the other
\* is done too, no entry processed its SOPInstanceUID and its header is as it
\* came
C13_Witness ==
  \E a, b \in Workers :
    /\ wk[a].pc = "done" /\ wk[b].pc = "done"
    /\ RandomizesEveryUID(a)
    /\ SopUidLogs(a) # {}
    /\ wk[a].dicom.MediaStorageSOPInstanceUID = wk[a].dicom.ds[SOPInstanceUID]
    /\ wk[a].dicom.ds[SOPInstanceUID] # Src(a)[SOPInstanceUID]
    /\ SopUidLogs(b) = {}
    /\ wk[b].dicom.MediaStorageSOPInstanceUID = Src(b)[SOPInstanceUID]

\* C14: every value ShiftDateTime writes to a DA element, shifted or taken
\* from the mapping store, parses under %Y%m%d, whatever rows earlier lookups
\* have left in the store, those of RandomizeText included.
C14_DateParses ==
  \A w \in Workers :
    \A e \in LogsOf(w, {"ShiftDateTime"}) :
      TagVR[e.tag] = "DA" => strptime_ok(e.NewValue)

\* The place of a kind in the pipeline
KindRank(kind) ==
  CASE kind = "ShiftDateTime" -> 1
    [] kind = "RandomizeText" -> 2
    [] kind = "RandomizeUID" -> 3
    [] kind = "AddTags" -> 4
    [] kind = "RemoveBurnedInAnnotations" -> 5
    [] kind = "DeleteTags" -> 6
    [] kind = "Transcode" -> 7

\* The entries of a kind in declaration order: the transformations whose
\* Scope the labels satisfy, in order, and each one's list in order
RECURSIVE DeclaredOps(_, _, _)
DeclaredOps(labels, kind, i) ==
  IF i > Len(Config.Transformations) THEN <<>>
  ELSE LET t == Config.Transformations[i]
       IN (IF Satisfies(labels, t.Scope) /\ kind \in DOMAIN t THEN t[kind] ELSE <<>>)
            \o DeclaredOps(labels, kind, i + 1)

\* C7: in one pass the actions run in the order ShiftDateTime, RandomizeText,
\* RandomizeUID, AddTags, RemoveBurnedInAnnotations, DeleteTags, Transcode, and
\* within a kind in declaration order, so the mapping calls and random draws
\* are made in that order.
C7_PipelineOrder ==
  \A w \in Workers :
    /\ \A i, j \in DOMAIN wk[w].logs :
         i < j =>
           /\ KindRank(wk[w].logs[i].kind) <= KindRank(wk[w].logs[j].kind)
           /\ wk[w].logs[i].kind = wk[w].logs[j].kind
                => wk[w].logs[i].entry <= wk[w].logs[j].entry
    /\ \A i \in DOMAIN wk[w].logs :
         wk[w].logs[i].entry > 0 =>
           wk[w].transformations[wk[w].logs[i].kind][wk[w].logs[i].entry]
             = DeclaredOps(wk[w].matching_labels, wk[w].logs[i].kind, 1)[wk[w].logs[i].entry]

AllKinds ==
  {"ShiftDateTime", "RandomizeText", "RandomizeUID", "AddTags",
   "RemoveBurnedInAnnotations", "DeleteTags", "Transcode"}

\* C7, its case: one worker is done after actions of all seven kinds, the
\* other has run entries of two transformations within one kind
C7_Witness ==
  \E a, b \in Workers :
    /\ wk[a].pc = "done"
    /\ {wk[a].logs[i].kind : i \in DOMAIN wk[a].logs} = AllKinds
    /\ \E e \in LogsOf(b, {"DeleteTags"}) : TRUE
    /\ Len(wk[b].transformations.DeleteTags) = 2

\* A skipped instance: load_dicom returned skipped = True and the driver None
Skipped(w) == wk[w].pc = "skipped"

C8_SkipState ==
  \A w \in Workers :
    /\ wk[w].pc # "start" =>
         (Skipped(w) <=> ~Satisfies(wk[w].matching_labels, Config.ScopeToForward))
    /\ Skipped(w) =>
         /\ wk[w].transformations = <<>>
         /\ ~wk[w].remove_burned_in_annotations
         /\ ~wk[w].use_ocr
         /\ CallsOf(w) = {}
         /\ wk[w].dicom = Instances[wk[w].instance_id]
    /\ (\A v \in Workers : Skipped(v)) => store[wk[w].world] = {}

C8_SkipStep == \A w \in Workers : Skipped(w) => wk'[w] = wk[w]

\* C8: load_dicom with initial_load=True returns skipped = not satisfies(
\* matching labels, ScopeToForward); for a skipped instance no transformation
\* is computed, the driver returns None and does nothing more, and no
\* mapping row is written for it.
C8_Skip == [](C8_SkipState) /\ [][C8_SkipStep]_vars

\* C8, its case: an instance was skipped because one of its labels is in an
\* excepted category although ALL is included, while the other worker went
\* on and wrote mapping rows
C8_Witness ==
  \E a, b \in Workers :
    /\ Skipped(a)
    /\ "ALL" \in IncludedNames(Config.ScopeToForward)
    /\ "ExceptCategories" \in DOMAIN Config.ScopeToForward
    /\ wk[b].pc = "done"
    /\ store[wk[b].world] # {}

\* ------------------------------------------------ the decisions of a load

\* The dataset load_dicom was first given
FirstLoaded(w) == Instances[wk[w].instance_id]

\* The configured labels without a compiled filter, and those whose filter
\* holds on the dataset first loaded
Unfiltered == {l \in Range(Config.Labels) : "JSONPathQuery" \notin DOMAIN l}
Filtered == Range(Config.Labels) \ Unfiltered
Holding(w) == {l \in Filtered : jsonpath_matches(FirstLoaded(w).ds, l.JSONPathQuery)}

\* C17: once load_dicom has run, the matching labels are ALL, the name of
\* every configured label without a filter and the names of the labels with
\* a compiled filter that holds on the instance, a label with a filter being
\* among them only when it holds; no other name is among them.
C17_MatchingLabels ==
  \A w \in Workers :
    wk[w].pc # "start" =>
      LET names == Range(wk[w].matching_labels)
      IN /\ "ALL" \in names
         /\ \A l \in Unfiltered : l.Name \in names
         /\ \A l \in Filtered : l.Name \in names <=> l \in Holding(w)
         /\ names \subseteq {"ALL"} \cup {l.Name : l \in Range(Config.Labels)}

\* C17, its case: a loaded instance on which one filter holds and two do not,
\* next to one on which two filters hold, with a configuration that has a
\* label without filter
C17_Witness ==
  \E a, b \in Workers :
    /\ wk[a].pc # "start" /\ wk[b].pc # "start"
    /\ Unfiltered # {}
    /\ Cardinality(Holding(a)) = 1 /\ Cardinality(Filtered \ Holding(a)) = 2
    /\ Cardinality(Holding(b)) = 2
    /\ Range(wk[a].matching_labels) # Range(wk[b].matching_labels)

\* A load that was not skipped has returned
Loaded(w) == wk[w].pc \notin {"start", "skipped"}

\* The operations to apply have a RemoveBurnedInAnnotations element
NeedsPixelEdit(w) == "RemoveBurnedInAnnotations" \in DOMAIN wk[w].transformations

C18_State ==
  \A w \in Workers :
    Loaded(w) =>
      /\ is_transcoding_needed(wk[w]) =
           IF NeedsPixelEdit(w) /\ wk[w].dicom.TransferSyntaxUID # "1.2.840.10008.1.2.1"
           THEN <<TRUE, wk[w].dicom.TransferSyntaxUID>>
           ELSE <<FALSE, None>>
      /\ wk[w].reloaded => ~is_transcoding_needed(wk[w])[1]

C18_Step ==
  \A w \in Workers :
    /\ (wk[w].pc = "start" /\ wk'[w].pc \notin {"start", "skipped"}) =>
         (wk'[w].pc = "transcode"
            <=> /\ "RemoveBurnedInAnnotations" \in DOMAIN wk'[w].transformations
                /\ FirstLoaded(w).TransferSyntaxUID # "1.2.840.10008.1.2.1")
    /\ (wk[w].pc = "transcode" /\ wk'[w].reloaded) =>
         /\ wk'[w].src_transfer_syntax = FirstLoaded(w).TransferSyntaxUID
         /\ wk'[w].dicom.TransferSyntaxUID = "1.2.840.10008.1.2.1"

\* C18: after a load that was not skipped, is_transcoding_needed returns
\* True with the current transfer syntax exactly when the operations to apply
\* have a RemoveBurnedInAnnotations element and the current transfer syntax
\* is not 1.2.840.10008.1.2.1, and (False, None) otherwise; the driver asks
\* for the transcoded bytes exactly then, and after the reload with them
\* is_transcoding_needed returns False.
C18_Transcoding == [](C18_State) /\ [][C18_Step]_vars

\* C18, its case: one instance came compressed, had pixels to mask and was
\* reloaded from transcoded bytes, after which no transcoding is needed; the
\* other has pixels to mask too and came in 1.2.840.10008.1.2.1, so it was
\* never reloaded
C18_Witness ==
  \E a, b \in Workers :
    /\ Loaded(a) /\ NeedsPixelEdit(a) /\ wk[a].reloaded
    /\ FirstLoaded(a).TransferSyntaxUID = JPEGBaseline
    /\ wk[a].src_transfer_syntax = JPEGBaseline
    /\ ~is_transcoding_needed(wk[a])[1]
    /\ Loaded(b) /\ NeedsPixelEdit(b) /\ ~wk[b].reloaded
    /\ wk[b].pc = "done"
    /\ FirstLoaded(b).TransferSyntaxUID = ExplicitVRLittleEndian

\* The transformations of the configuration file with an OCR entry, and
\* those of them whose Scope the matching labels satisfy
WithOcr ==
  {t \in Range(Config.Transformations) :
     /\ "RemoveBurnedInAnnotations" \in DOMAIN t
     /\ \E e \in Range(t.RemoveBurnedInAnnotations) : e.Type = "OCR"}
OcrActive(w) == {t \in WithOcr : Satisfies(wk[w].matching_labels, t.Scope)}

C19_State ==
  \A w \in Workers : Loaded(w) => (is_ocr_needed(wk[w]) <=> OcrActive(w) # {})

C19_Step ==
  \A w \in Workers :
    /\ (wk[w].pc # "ocr" /\ wk'[w].pc = "ocr") => OcrActive(w)' # {}
    /\ (wk[w].pc \in {"start", "transcode"} /\ wk'[w].pc = "apply_call")
         => OcrActive(w)' = {}

\* C19: after a load that was not skipped, is_ocr_needed returns True exactly
\* when a RemoveBurnedInAnnotations entry with Type OCR belongs to a
\* transformation whose Scope the matching labels satisfy, and the driver
\* calls the OCR exactly then; an OCR entry under a Scope that is not
\* satisfied never does.
C19_Ocr == [](C19_State) /\ [][C19_Step]_vars

\* C19, its case: the configuration has an OCR entry under a Scope that one
\* instance satisfies, for which the OCR was asked, its boxes added and the
\* transformations applied, and that the other, which has pixels to mask as
\* well, does not satisfy: it is done without any box of the OCR
C19_Witness ==
  \E a, b \in Workers :
    /\ wk[a].pc = "applied" /\ OcrActive(a) # {}
    /\ \E e \in Range(wk[a].transformations.RemoveBurnedInAnnotations) : e.Type = "FromOCR"
    /\ wk[b].pc = "done" /\ WithOcr # {} /\ OcrActive(b) = {}
    /\ NeedsPixelEdit(b)
    /\ \A e \in Range(wk[b].transformations.RemoveBurnedInAnnotations) : e.Type = "Manual"

\* ------------------------------------------------ the operations of a load

\* The kinds of operations whose value is a list
ListKinds ==
  {"ShiftDateTime", "RandomizeText", "RandomizeUID", "AddTags",
   "RemoveBurnedInAnnotations", "DeleteTags"}

\* The transformations of the configuration file whose Scope the labels
\* satisfy, by their place in the file
Satisfied(labels) ==
  {i \in DOMAIN Config.Transformations :
     do_labels_match_scope_rules(Config, labels, Config.Transformations[i].Scope)}

\* The lists of `kind` of the transformations in `among`, one after the
\* other from place i on
RECURSIVE ListsFrom(_, _, _)
ListsFrom(kind, among, i) ==
  IF i > Len(Config.Transformations) THEN <<>>
  ELSE (IF i \in among THEN op_list(Config.Transformations[i], kind) ELSE <<>>)
         \o ListsFrom(kind, among, i + 1)

\* The places among `among` that declare a Transcode
Transcoders(among) == {i \in among : "Transcode" \in DOMAIN Config.Transformations[i]}

C25_Step ==
  \A w \in Workers :
    (wk[w].pc = "start" /\ wk'[w].pc \notin {"start", "skipped"}) =>
      LET among == Satisfied(wk'[w].matching_labels)
          tr == wk'[w].transformations
      IN /\ \A kind \in ListKinds :
              /\ op_list(tr, kind) = ListsFrom(kind, among, 1)
              /\ kind \in DOMAIN tr
                   <=> \E i \in among : kind \in DOMAIN Config.Transformations[i]
         /\ "Transcode" \in DOMAIN tr <=> Transcoders(among) # {}
         /\ Transcoders(among) # {} =>
              \E i \in Transcoders(among) :
                /\ \A j \in Transcoders(among) : j <= i
                /\ tr.Transcode = Config.Transformations[i].Transcode

\* C25: when the first load of an instance is not skipped, the operations to
\* apply hold, for each kind whose value is a list, the lists of exactly the
\* transformations whose Scope the matching labels satisfy, one after the
\* other in the order of the file, and the Transcode of the last of those
\* transformations that declares one.
C25_Merge == [][C25_Step]_vars

\* C25, its case: an instance was loaded for which two transformations in
\* scope declare the same kind of list and two declare different Transcode
\* values, and another for which a transformation is out of scope
C25_Witness ==
  \E w, v \in Workers :
    LET among == Satisfied(wk[w].matching_labels)
    IN /\ Loaded(w) /\ Loaded(v)
       /\ Satisfied(wk[v].matching_labels) \notin {{}, DOMAIN Config.Transformations}
       /\ \E i, j \in among :
            /\ i < j
            /\ \E kind \in ListKinds :
                 /\ op_list(Config.Transformations[i], kind) # <<>>
                 /\ op_list(Config.Transformations[j], kind) # <<>>
            /\ {i, j} \subseteq Transcoders(among)
            /\ Config.Transformations[i].Transcode # Config.Transformations[j].Transcode
            /\ wk[w].transformations.Transcode = Config.Transformations[j].Transcode

\* ------------------------------------------------ two runs on one input

TapeLen == 2

Tapes == [1..TapeLen -> RawDraws]

FixedAnswers ==
  {[fixed |-> TRUE, transcodes |-> t, boxes |-> b] : t \in BOOLEAN, b \in BoxAnswers}

\* The table before the runs: empty, or with rows of earlier instances
InitialStores ==
  {{},
   {[value_type |-> "UID", old_value |-> "1.2.3.1", scope_type |-> "always",
     scope_value |-> "always", new_value |-> "1.2.826.0.1.3680043.8.498.33"],
    [value_type |-> "DATETIME", old_value |-> "20200101", scope_type |-> "always",
     scope_value |-> "always", new_value |-> "20200103"]}}

\* Two runs of the driver, each on its own copy of the table, given the same
\* instance, configuration, seed and answers of Orthanc and of the OCR
InitDet ==
  /\ sc = NoScope
  /\ px = NoPixels
  /\ heap = NoHeap
  /\ tree = NoTree
  /\ txt = NoText
  /\ cand = NoCandidate
  /\ pat = NoPattern
  /\ qry = NoQuery
  /\ que = NoQueue
  /\ pool = NoPooler
  /\ config \in DOMAIN Configs
  /\ \E rows \in InitialStores : store = [world \in Worlds |-> rows]
  /\ tape \in Tapes
  /\ orthanc \in FixedAnswers
  /\ \E i \in DOMAIN Instances :
       wk = [w \in Workers |-> NewWorker(IF w = "w1" THEN 1 ELSE 2, i, {})]

SpecDet == InitDet /\ [][Next]_vars

Finished(w) == wk[w].pc \in {"skipped", "done", "failed"}

ApplyAnyTime(w) ==
  /\ wk[w].pc \in {"transcode", "ocr"}
  /\ wk' = [wk EXCEPT ![w].pc = "apply", ![w].old_patient_id = None, ![w].cursor = 1,
                      ![w].items = mapping_items(wk[w].transformations, wk[w].dicom.ds)]
  /\ UNCHANGED <<sc, px, heap, tree, txt, cand, pat, qry, que, pool, config, store, tape, orthanc>>

\* The pixel data handlers a build of the worker can have for JPEG Baseline
Handlers == {{}, {JPEGBaseline}}

InitAny ==
  /\ sc = NoScope
  /\ px = NoPixels
  /\ heap = NoHeap
  /\ tree = NoTree
  /\ txt = NoText
  /\ cand = NoCandidate
  /\ pat = NoPattern
  /\ qry = NoQuery
  /\ que = NoQueue
  /\ pool = NoPooler
  /\ config \in {c \in DOMAIN Configs : Configs[c] = ConfigPixels}
  /\ store = [world \in Worlds |-> {}]
  /\ tape = <<>>
  /\ orthanc = AnyAnswer
  /\ \E i, j \in DOMAIN Instances : \E h \in Handlers :
       /\ i <= j
       /\ wk = [w \in Workers |-> NewWorker(1, IF w = "w1" THEN i ELSE j, h)]

NextAny == Next \/ \E w \in Workers : ApplyAnyTime(w)

SpecAny == InitAny /\ [][NextAny]_vars

\* C9: whatever the order of the driver's calls, apply_transformations edits
\* the pixel data only of an instance whose transfer syntax is Explicit VR
\* Little Endian; with RemoveBurnedInAnnotations to apply and an instance
\* that was not reloaded after is_transcoding_needed returned true, it fails
\* instead of masking.
C9_PixelGate ==
  \A w \in Workers :
    /\ wk[w].masked_with \in {None, ExplicitVRLittleEndian}
    /\ (/\ wk[w].remove_burned_in_annotations
        /\ Instances[wk[w].instance_id].TransferSyntaxUID # ExplicitVRLittleEndian
        /\ ~wk[w].reloaded)
         => wk[w].pc \notin {"applied", "done"}

\* ------------------------------------------------- the engine reloaded

MaxBatches == 2

\* The object the calls are made on
Engine == "w1"

\* The bytes a caller can reload: an instance as it is stored or transcoded
\* to Explicit VR Little Endian
ReloadBytes ==
  {Instances[i] : i \in Usual}
    \cup {[Instances[i] EXCEPT !.TransferSyntaxUID = ExplicitVRLittleEndian] : i \in Usual}

\* The src_transfer_syntax a caller can pass
ReloadSyntaxes == {None, ImplicitVRLittleEndian, JPEGBaseline}

\* The batches add_box_coordinates was called with
Injected(s) ==
  IF "RemoveBurnedInAnnotations" \notin DOMAIN s.transformations THEN <<>>
  ELSE SelectSeq(s.transformations.RemoveBurnedInAnnotations,
                 LAMBDA e : e.Type = "FromOCR")

\* load_dicom(dicom_bytes) on a new object
FirstLoad == LoadDicom(Engine)

\* load_dicom(dicom_bytes, src_transfer_syntax, initial_load=False) at any
\* time after the first load
Reload ==
  /\ wk[Engine].pc # "start"
  /\ \E dicom \in ReloadBytes : \E src_transfer_syntax \in ReloadSyntaxes :
       wk' = [wk EXCEPT ![Engine] =
                [load_dicom(@, dicom, src_transfer_syntax, FALSE) EXCEPT !.reloaded = TRUE]]
  /\ UNCHANGED <<sc, px, heap, tree, txt, cand, pat, qry, que, pool, config, store, tape, orthanc>>

\* add_box_coordinates(boxes) at any time after a load that found
\* RemoveBurnedInAnnotations
AddBoxes ==
  /\ wk[Engine].pc \notin {"start", "skipped"}
  /\ "RemoveBurnedInAnnotations" \in DOMAIN wk[Engine].transformations
  /\ Len(Injected(wk[Engine])) < MaxBatches
  /\ \E boxes \in BoxAnswers :
       wk' = [wk EXCEPT ![Engine] = add_box_coordinates(@, boxes)]
  /\ UNCHANGED <<sc, px, heap, tree, txt, cand, pat, qry, que, pool, config, store, tape, orthanc>>

InitReload ==
  /\ sc = NoScope
  /\ px = NoPixels
  /\ heap = NoHeap
  /\ tree = NoTree
  /\ txt = NoText
  /\ cand = NoCandidate
  /\ pat = NoPattern
  /\ qry = NoQuery
  /\ que = NoQueue
  /\ pool = NoPooler
  /\ config \in DOMAIN Configs
  /\ store = [world \in Worlds |-> {}]
  /\ tape = <<>>
  /\ orthanc = AnyAnswer
  /\ \E i \in Usual : wk = [w \in Workers |-> NewWorker(1, i, {})]

NextReload == FirstLoad \/ Reload \/ AddBoxes

SpecReload == InitReload /\ [][NextReload]_vars

\* What a reload leaves of the object: everything but the dataset, the
\* source transfer syntax and what the call returns
Kept(s) ==
  [s EXCEPT !.dicom = None, !.src_transfer_syntax = None, !.load_returned = <<>>,
            !.reloaded = FALSE]

C20_Step ==
  Reload =>
    LET s == wk[Engine]
        r == wk'[Engine]
    IN /\ r.matching_labels = s.matching_labels
       /\ r.transformations = s.transformations
       /\ r.remove_burned_in_annotations = s.remove_burned_in_annotations
       /\ r.use_ocr = s.use_ocr
       /\ Injected(r) = Injected(s)
       /\ Kept(r) = Kept(s)
       /\ r.load_returned = <<s.matching_labels, FALSE>>
       /\ \E dicom \in ReloadBytes : \E src_transfer_syntax \in ReloadSyntaxes :
            /\ r.dicom = dicom
            /\ r.src_transfer_syntax = IF src_transfer_syntax # None THEN src_transfer_syntax
                                       ELSE dicom.TransferSyntaxUID

\* C20: load_dicom with initial_load=False replaces the dataset and the
\* recorded source transfer syntax and nothing else: the matching labels, the
\* transformations to apply with the boxes add_box_coordinates added, and
\* the two flags stay as the first load computed them, and the call returns
\* the matching labels with skipped = False.
C20_Reload == [][C20_Step]_vars

\* C20, its case: after boxes were added the object was reloaded with the
\* bytes of an instance that other labels match; it still has the labels of
\* the first one, the boxes, and returned those labels with False
C20_Witness ==
  LET s == wk[Engine]
  IN /\ s.reloaded
     /\ Len(Injected(s)) = MaxBatches
     /\ s.dicom # FirstLoaded(Engine)
     /\ s.matching_labels # find_matching_labels(Config, s.dicom.ds)
     /\ s.matching_labels = find_matching_labels(Config, FirstLoaded(Engine).ds)
     /\ s.load_returned = <<s.matching_labels, FALSE>>
     /\ s.use_ocr

\* ------------------------------------------------ the run of one instance

\* deidentify_dicom_orthanc for the instance of worker w
Driver(w) ==
  \/ LoadDicom(w)
  \/ DriverTranscode(w)
  \/ DriverOcr(w)
  \/ ApplyBegin(w)
  \/ ApplyItem(w)
  \/ ApplyFinish(w)
  \/ DriverExport(w)

\* A step of the call of worker w: only Driver(w) changes wk[w]
Moves(w) == wk'[w] # wk[w]

\* Each call of deidentify_dicom_orthanc runs on, since no call it makes waits
\* for another worker: weak fairness of Driver(w), which is enabled until the
\* call has ended, written out as "ended, or a step again and again"
SpecFair ==
  Spec /\ \A w \in Workers : ([]<>Finished(w) \/ []<><<Moves(w)>>_vars)

\* The places of the driver, in the order of its code
PcRank(pc) ==
  CASE pc = "start" -> 0
    [] pc = "transcode" -> 1
    [] pc = "ocr" -> 2
    [] pc = "apply_call" -> 3
    [] pc = "apply" -> 4
    [] pc = "applied" -> 5
    [] OTHER -> 6

C23_Step ==
  \A w \in Workers :
    LET a == wk[w].pc
        b == wk'[w].pc
    IN /\ Finished(w) => wk'[w] = wk[w]
       /\ a # b => PcRank(a) < PcRank(b)
       /\ (wk[w].reloaded # wk'[w].reloaded) =>
            a = "transcode" /\ b \in {"ocr", "apply_call"} /\ wk'[w].reloaded
       /\ (a # "ocr" /\ b = "ocr") =>
            a \in {"start", "transcode"} /\ ~is_transcoding_needed(wk'[w])[1]
       /\ Injected(wk[w]) # Injected(wk'[w]) =>
            a = "ocr" /\ b = "apply_call" /\ Len(Injected(wk'[w])) = 1
       /\ (a # "apply" /\ b = "apply") => a = "apply_call"
       /\ b = "skipped" => a \in {"start", "skipped"}
       /\ b = "done" => a \in {"applied", "done"}

\* C23: every call of deidentify_dicom_orthanc ends, skipped (None is
\* returned), done (the de-identified instance is returned) or failed (an
\* exception is raised), and stays so; the instance is reloaded at most once
\* and the OCR asked at most once, the reload first, both after the first
\* load and before apply_transformations, which is called at most once.
C23_StateMachine ==
  /\ [][C23_Step]_vars
  /\ \A w \in Workers : <>Finished(w)

\* C23, its case: one call is done after a reload and no OCR; the other
\* failed after a reload, the OCR and apply_transformations, when the output
\* was to be transcoded
C23_Witness ==
  \E a, b \in Workers :
    /\ wk[a].pc = "done" /\ wk[a].reloaded /\ Injected(wk[a]) = <<>>
    /\ wk[b].pc = "failed" /\ wk[b].reloaded /\ Len(Injected(wk[b])) = 1
    /\ wk[b].returned # None

\* ------------------------------------------------ the engine used again
\* The lists of RemoveBurnedInAnnotations as objects: heap.config[i] is the
\* list of config['Transformations'][i], heap.own the list made by the last
\* _find_transformations_to_apply, and (heap.ref, heap.at) says which of them
\* self._transformations['RemoveBurnedInAnnotations'] is.

config_lists(cfg) ==
  [i \in DOMAIN cfg.Transformations |->
     op_list(cfg.Transformations[i], "RemoveBurnedInAnnotations")]

\* A plausible slip: transformations.setdefault(key, t[key]).
setdefault_alias(h, i) ==
  IF h.ref = "none" THEN [h EXCEPT !.ref = "config", !.at = i] ELSE h

\* transformations.setdefault(key, [])
setdefault(h, i) ==
  IF h.ref = "none" THEN [h EXCEPT !.ref = "own", !.own = <<>>] ELSE h

\* transformations[key] += t[key]: the list is extended in place
extend_list(h, i) ==
  IF h.ref = "own" THEN [h EXCEPT !.own = @ \o h.config[i]]
  ELSE [h EXCEPT !.config[h.at] = @ \o h.config[i]]

\* self._transformations['RemoveBurnedInAnnotations']
held_list(h) == IF h.ref = "own" THEN h.own ELSE h.config[h.at]

\* The loop of _find_transformations_to_apply from transformation i on
RECURSIVE find_lists(_, _, _)
find_lists(h, labels, i) ==
  IF i > Len(Config.Transformations) THEN h
  ELSE LET t == Config.Transformations[i]
       IN IF /\ do_labels_match_scope_rules(Config, labels, t.Scope)
             /\ "RemoveBurnedInAnnotations" \in DOMAIN t
          THEN find_lists(extend_list(setdefault(h, i), i), labels, i + 1)
          ELSE find_lists(h, labels, i + 1)

\* What the object holds besides the driver's position
EngineState(s) ==
  [dicom |-> s.dicom, src_transfer_syntax |-> s.src_transfer_syntax,
   matching_labels |-> s.matching_labels, transformations |-> s.transformations,
   remove_burned_in_annotations |-> s.remove_burned_in_annotations,
   use_ocr |-> s.use_ocr, load_returned |-> s.load_returned]

\* load_dicom(dicom_bytes) of instance k on the object, used before or not
load_instance(s, h, k) ==
  LET before == [NewWorker(s.world, k, s.handlers) EXCEPT
                   !.dicom = s.dicom, !.src_transfer_syntax = s.src_transfer_syntax,
                   !.matching_labels = s.matching_labels,
                   !.transformations = s.transformations,
                   !.remove_burned_in_annotations = s.remove_burned_in_annotations,
                   !.use_ocr = s.use_ocr, !.load_returned = s.load_returned]
      r == load_dicom(before, Instances[k], None, TRUE)
      lists == find_lists([h EXCEPT !.ref = "none"], r.matching_labels, 1)
  IN IF r.load_returned[2] THEN [s |-> r, h |-> h]
     ELSE [s |-> [f \in DOMAIN r |->
                   IF f = "pc" THEN after_load(r)
                   ELSE IF f = "transformations" /\ lists.ref # "none"
                   THEN [r.transformations EXCEPT
                           !.RemoveBurnedInAnnotations = held_list(lists)]
                   ELSE r[f]],
           h |-> lists]

LoadInstance ==
  /\ \E k \in DOMAIN Instances :
       LET res == load_instance(wk[Engine], heap, k)
       IN /\ wk' = [wk EXCEPT ![Engine] = res.s]
          /\ heap' = res.h
  /\ UNCHANGED <<sc, px, tree, txt, cand, pat, qry, que, pool, config, store, tape, orthanc>>

\* add_box_coordinates(boxes): the append is made to the list object
InjectBoxes ==
  /\ wk[Engine].pc \notin {"start", "skipped"}
  /\ "RemoveBurnedInAnnotations" \in DOMAIN wk[Engine].transformations
  /\ Len(Injected(wk[Engine])) < MaxBatches
  /\ \E boxes \in BoxAnswers :
       /\ wk' = [wk EXCEPT ![Engine] = add_box_coordinates(@, boxes)]
       /\ heap' = LET e == [Type |-> "FromOCR", BoxCoordinates |-> boxes]
                  IN IF heap.ref = "own" THEN [heap EXCEPT !.own = Append(@, e)]
                     ELSE [heap EXCEPT !.config[heap.at] = Append(@, e)]
  /\ UNCHANGED <<sc, px, tree, txt, cand, pat, qry, que, pool, config, store, tape, orthanc>>

InitReuse ==
  /\ sc = NoScope
  /\ px = NoPixels
  /\ tree = NoTree
  /\ txt = NoText
  /\ cand = NoCandidate
  /\ pat = NoPattern
  /\ qry = NoQuery
  /\ que = NoQueue
  /\ pool = NoPooler
  /\ config \in DOMAIN Configs
  /\ heap = [NoHeap EXCEPT !.config = config_lists(Config)]
  /\ store = [world \in Worlds |-> {}]
  /\ tape = <<>>
  /\ orthanc = AnyAnswer
  /\ wk = IdleWorkers

NextReuse == LoadInstance \/ InjectBoxes

SpecReuse == InitReuse /\ [][NextReuse]_vars

\* The lists of the configuration file are as they were validated
C21_State == heap.config = config_lists(Config)

\* A load leaves the object as it leaves a new one
C21_Step ==
  LoadInstance =>
    LET r == wk'[Engine]
        new == load_dicom(NewWorker(r.world, r.instance_id, r.handlers),
                          Instances[r.instance_id], None, TRUE)
    IN /\ EngineState(r) = EngineState(new)
       /\ Injected(r) = <<>>
       /\ ~r.load_returned[2] =>
            r.transformations
              = find_transformations_to_apply(Config, r.matching_labels).transformations

\* C21: no call of the object changes the configuration file it was built
\* with, and nothing of an instance stays in the object for the next one:
\* after a load, the operations to apply, without any box added for an
\* earlier instance, and the two flags are those a new object has for that
\* instance, a function of the configuration file and the matching labels.
C21_Stateless == [](C21_State) /\ [][C21_Step]_vars

\* ------------------------------------------------ the configuration file
\* _validate_and_adapt_config_file, for what it checks of the names of
\* labels and categories

label_exists(cfg, label_name) ==
  \E i \in DOMAIN cfg.Labels : cfg.Labels[i].Name = label_name

category_exists(cfg, category_name) ==
  IF "Categories" \notin DOMAIN cfg THEN FALSE
  ELSE \E i \in DOMAIN cfg.Categories : cfg.Categories[i].Name = category_name

\* A plausible slip: the names of categories are looked for among the labels.
check_scope_rules_labels_only(cfg, rules) ==
  \A rule_type \in DOMAIN rules : \A i \in DOMAIN rules[rule_type] :
    rules[rule_type][i] = "ALL" \/ label_exists(cfg, rules[rule_type][i])

\* check_scope_rules: TRUE when no assert fails
check_scope_rules(cfg, rules) ==
  \A rule_type \in DOMAIN rules : \A i \in DOMAIN rules[rule_type] :
    IF rule_type \in {"Labels", "ExceptLabels"}
    THEN rules[rule_type][i] = "ALL" \/ label_exists(cfg, rules[rule_type][i])
    ELSE category_exists(cfg, rules[rule_type][i])

\* The checks of 'ScopeToForward' and of the 'Scope' of each transformation;
\* of a category only the types of 'Name' and 'Labels' are checked
validate_and_adapt_config_file(cfg) ==
  /\ check_scope_rules(cfg, cfg.ScopeToForward)
  /\ \A i \in DOMAIN cfg.Transformations :
       check_scope_rules(cfg, cfg.Transformations[i].Scope)

\* The files given to the constructor: one or two labels, no category or one
\* with a label that may not exist, and rules naming labels and categories
\* that may not exist
FileLabels == {<<[Name |-> "CT"]>>, <<[Name |-> "CT"], [Name |-> "MR"]>>}

FileCategories ==
  {<<[Name |-> "Scans", Labels |-> <<l>>]>> : l \in {"CT", "MR", "ALL", "XR"}}

Optional(name, values) == {<<>>} \cup {[k \in {name} |-> v] : v \in values}

Merge(a, b) == [k \in DOMAIN a \cup DOMAIN b |-> IF k \in DOMAIN a THEN a[k] ELSE b[k]]

FileRules ==
  {Merge(Merge(a, b), Merge(c, d)) :
     a \in Optional("Labels", {<<"CT">>, <<"ALL">>, <<"XR">>, <<"CT", "MR">>}),
     b \in Optional("ExceptLabels", {<<"MR">>, <<"XR">>}),
     c \in Optional("Categories", {<<"Scans">>, <<"Other">>}),
     d \in Optional("ExceptCategories", {<<"Scans">>, <<"Other">>})}

FileScopes == {[Labels |-> <<"ALL">>], [Labels |-> <<"MR">>], [Categories |-> <<"Scans">>],
               [Labels |-> <<"CT">>, ExceptCategories |-> <<"Other">>]}

Files ==
  {Merge(c, [Labels |-> l, ScopeToForward |-> r, Transformations |-> <<[Scope |-> s]>>]) :
     c \in {<<>>} \cup {[Categories |-> x] : x \in FileCategories},
     l \in FileLabels, r \in FileRules, s \in FileScopes}

\* DicomDeidentifier(config, db, db_mapping)
Construct ==
  /\ ~cand.done
  /\ cand' = [cand EXCEPT !.done = TRUE,
                          !.raised = ~validate_and_adapt_config_file(cand.config)]
  /\ UNCHANGED <<sc, px, heap, tree, txt, pat, qry, que, pool, config, store, tape, orthanc, wk>>

InitValidate ==
  /\ sc = NoScope
  /\ px = NoPixels
  /\ heap = NoHeap
  /\ tree = NoTree
  /\ txt = NoText
  /\ \E f \in Files : cand = [config |-> f, done |-> FALSE, raised |-> FALSE]
  /\ pat = NoPattern
  /\ qry = NoQuery
  /\ que = NoQueue
  /\ pool = NoPooler
  /\ config = 1
  /\ store = [world \in Worlds |-> {}]
  /\ tape = <<>>
  /\ orthanc = AnyAnswer
  /\ wk = IdleWorkers

NextValidate == Construct

SpecValidate == InitValidate /\ [][NextValidate]_vars

\* The names a file refers to
RulesOf(cfg) ==
  {cfg.ScopeToForward} \cup {cfg.Transformations[i].Scope : i \in DOMAIN cfg.Transformations}

NamesIn(rules, rule_types) ==
  UNION {Range(rules[k]) : k \in DOMAIN rules \cap rule_types}

LabelsOfRules(cfg) ==
  UNION {NamesIn(r, {"Labels", "ExceptLabels"}) : r \in RulesOf(cfg)}

CategoriesOfRules(cfg) ==
  UNION {NamesIn(r, {"Categories", "ExceptCategories"}) : r \in RulesOf(cfg)}

LabelsOfCategories(cfg) ==
  IF "Categories" \notin DOMAIN cfg THEN {}
  ELSE UNION {Range(cfg.Categories[i].Labels) : i \in DOMAIN cfg.Categories}

LabelNames(cfg) == {cfg.Labels[i].Name : i \in DOMAIN cfg.Labels}

CategoryNames(cfg) ==
  IF "Categories" \notin DOMAIN cfg THEN {}
  ELSE {cfg.Categories[i].Name : i \in DOMAIN cfg.Categories}

\* C22: the constructor raises unless every label named in the Labels or
\* ExceptLabels of a scope rule or in the Labels of a category is ALL or the
\* Name of a label of the file, and every category named in the Categories or
\* ExceptCategories of a scope rule is the Name of a category of the file.
C22_NamesExist ==
  (cand.done /\ ~cand.raised) =>
    /\ LabelsOfRules(cand.config) \subseteq LabelNames(cand.config) \cup {"ALL"}
    /\ LabelsOfCategories(cand.config) \subseteq LabelNames(cand.config) \cup {"ALL"}
    /\ CategoriesOfRules(cand.config) \subseteq CategoryNames(cand.config)

\* ------------------------------------------------- RandomizeText on a value
\* A text value is the sequence of its characters; a random 8-character
\* string is one element, standing for its eight characters.

MaxText == 3
MaxParts == (MaxText + 1) \div 2

Chars == {"a", "B", "^"}

Texts == UNION {[1..n -> Chars] : n \in 1..MaxText}

\* A Python value with its type, as `is True` tells them apart
PyNone == [type |-> "NoneType", val |-> <<>>]
PyStr(s) == [type |-> "str", val |-> s]
is_True(v) == v.type = "bool" /\ v.val = <<TRUE>>

\* str.lower()
lower_text(value) == [i \in DOMAIN value |-> lower(value[i])]

\* str.split(sep) for a separator of one character
RECURSIVE split(_, _)
split(value, sep) ==
  IF \A i \in DOMAIN value : value[i] # sep[1] THEN <<value>>
  ELSE LET k == CHOOSE i \in DOMAIN value :
                  value[i] = sep[1] /\ \A j \in 1..(i - 1) : value[j] # sep[1]
       IN <<SubSeq(value, 1, k - 1)>> \o split(SubSeq(value, k + 1, Len(value)), sep)

\* sep.join(parts)
RECURSIVE join(_, _)
join(sep, parts) ==
  IF parts = <<>> THEN <<>>
  ELSE IF Len(parts) = 1 THEN parts[1]
  ELSE parts[1] \o sep \o join(sep, Tail(parts))

\* The loop of randomize_text over old_value_after_split; `n` random strings
\* have been drawn before
RECURSIVE randomize_parts(_, _, _, _, _)
randomize_parts(t, rows, draws, parts, n) ==
  IF parts = <<>> THEN [raised |-> FALSE, rows |-> rows, values |-> <<>>]
  ELSE IF Head(parts) = <<>>
  THEN LET rest == randomize_parts(t, rows, draws, Tail(parts), n)
       IN [rest EXCEPT !.values = <<<<>>>> \o @]
  ELSE LET old_value == IF t.IgnoreCase THEN lower_text(Head(parts)) ELSE Head(parts)
           random_value == <<random_text(draws[n + 1])>>
           m == get_new_value_from_mapping(t, None, <<>>, rows, "DATETIME",
                                           old_value, random_value)
           rest == randomize_parts(t, m.rows, draws, Tail(parts), n + 1)
       IN IF m.raised THEN [raised |-> TRUE, rows |-> rows, values |-> <<>>]
          ELSE [rest EXCEPT !.values = <<m.value>> \o @]

\* A plausible slip: the value is split whenever Split is a string.
splits_if_str(t) == t.Split.type = "str" /\ t.Split.val # <<>>

\* The test of randomize_text: t['Split'] is True
splits(t) == is_True(t.Split)

\* randomize_text(elem, item_value, elem_full_tag, t): [raised, rows, final_value]
randomize_text_value(t, rows, draws, item_value) ==
  LET old_value_before_split == item_value
      old_value_after_split == IF splits(t) THEN split(old_value_before_split, t.Split.val)
                               ELSE <<old_value_before_split>>
      r == randomize_parts(t, rows, draws, old_value_after_split, 0)
  IN [raised |-> r.raised, rows |-> r.rows,
      final_value |-> IF r.raised THEN <<>>
                      ELSE IF splits(t) THEN join(t.Split.val, r.values)
                      ELSE r.values[1]]

\* The RandomizeText entries after _validate_and_adapt_config_file: Split is
\* None when the file has none, IgnoreCase is False when the file has none
SplitEntries ==
  {[TagPatterns |-> <<PatNumber(PatientName)>>, Split |-> s, IgnoreCase |-> c] :
     s \in {PyNone, PyStr(<<>>), PyStr(<<"^">>)}, c \in BOOLEAN}
  \cup
  {[TagPatterns |-> <<PatNumber(PatientName)>>, Split |-> s, IgnoreCase |-> c,
    ReuseMapping |-> "Always"] :
     s \in {PyNone, PyStr(<<>>), PyStr(<<"^">>)}, c \in BOOLEAN}

\* The table before the call: empty, or with the row of an earlier value
EarlierRows ==
  {{}, add_or_get_mapping({}, "DATETIME", <<"a">>, <<random_text(0)>>,
                          "always", "always").rows}

\* One value of one element goes through randomize_text
RandomizeValue ==
  /\ ~txt.done
  /\ \E value \in Texts, draws \in [1..MaxParts -> RawDraws] :
       LET r == randomize_text_value(txt.t, txt.before, draws, value)
       IN txt' = [txt EXCEPT !.done = TRUE, !.value = value, !.draws = draws,
                             !.raised = r.raised, !.rows = r.rows,
                             !.final_value = r.final_value]
  /\ UNCHANGED <<sc, px, heap, tree, cand, pat, qry, que, pool, config, store, tape, orthanc, wk>>

InitSplit ==
  /\ sc = NoScope
  /\ px = NoPixels
  /\ heap = NoHeap
  /\ tree = NoTree
  /\ \E t \in SplitEntries, rows \in EarlierRows :
       txt = [done |-> FALSE, t |-> t, before |-> rows, rows |-> rows,
              value |-> <<>>, draws |-> <<>>, raised |-> FALSE, final_value |-> <<>>]
  /\ cand = NoCandidate
  /\ pat = NoPattern
  /\ qry = NoQuery
  /\ que = NoQueue
  /\ pool = NoPooler
  /\ config = 1
  /\ store = [world \in Worlds |-> {}]
  /\ tape = <<>>
  /\ orthanc = AnyAnswer
  /\ wk = IdleWorkers

NextSplit == RandomizeValue

SpecSplit == InitSplit /\ [][NextSplit]_vars

\* A run of randomize_text that returned
Randomized == "t" \in DOMAIN txt /\ txt.done /\ ~txt.raised

\* The segments the entry asks for, of a value
Segments(t, value) ==
  IF t.Split.type = "str" /\ t.Split.val # <<>> THEN split(value, t.Split.val)
  ELSE <<value>>

\* The key under which a segment is looked up
SegmentKey(t, seg) == IF t.IgnoreCase THEN lower_text(seg) ELSE seg

\* How many non-empty segments come before segment i
DrawsBefore(segs, i) == Cardinality({j \in 1..(i - 1) : segs[j] # <<>>})

\* Segment i of the value has been replaced as the entry asks: by its own
\* random string or, with ReuseMapping, by what the table holds for it (a row
\* from before, or the random string of the first segment with that key)
Replaced(t, segs, outs, i) ==
  IF "ReuseMapping" \in DOMAIN t
  THEN \E r \in txt.rows :
         /\ same_key(r, "DATETIME", SegmentKey(t, segs[i]), "always", "always")
         /\ outs[i] = r.new_value
         /\ \/ r \in txt.before
            \/ \E j \in 1..i : r.new_value = <<random_text(txt.draws[DrawsBefore(segs, j) + 1])>>
  ELSE outs[i] = <<random_text(txt.draws[DrawsBefore(segs, i) + 1])>>

\* C24: RandomizeText on a value: with Split a non-empty string the value is
\* split on it, each non-empty segment is replaced by a random string of its
\* own (through the mapping table with ReuseMapping), empty segments stay
\* empty and the segments are joined again with Split; with no Split the
\* whole value is one segment.
C24_Split ==
  (Randomized /\ txt.t.Split # PyStr(<<>>)) =>
    LET t == txt.t
        segs == Segments(t, txt.value)
        outs == Segments(t, txt.final_value)
    IN /\ Len(outs) = Len(segs)
       /\ \A i \in DOMAIN segs :
            IF segs[i] = <<>> THEN outs[i] = <<>> ELSE Replaced(t, segs, outs, i)

\* The part of C24 the code keeps: a value without the separator, or an entry
\* without Split, is replaced as one segment
C24_OneSegment ==
  (Randomized /\ Len(Segments(txt.t, txt.value)) = 1 /\ txt.t.Split # PyStr(<<>>)) =>
    Replaced(txt.t, <<txt.value>>, <<txt.final_value>>, 1)

\* A value with the separator in it went through an entry with Split
C24_Witness ==
  /\ Randomized
  /\ txt.t.Split = PyStr(<<"^">>)
  /\ txt.value = <<"a", "^", "B">>

\* ------------------------------------------------- datasets with sequences
\* A dataset is a function from tags to elements [VR, value, items]: a
\* sequence element (VR SQ) holds its item datasets in `items`, any other
\* element its text in `value`. A dataset inside the tree is named by its
\* location, the chain of [tag, item] from the top level down to it.

ReferencedSeriesSequence == "00081115"

\* A dataset is iterated in ascending tag order
NestedTagOrder == <<ReferencedSeriesSequence, PatientName, PatientID>>

\* _get_elem_tag_hexa, with the sequence tag
tag_hexa(tag) ==
  IF tag = ReferencedSeriesSequence THEN <<"0", "0", "0", "8", "1", "1", "1", "5">>
  ELSE get_elem_tag_hexa(tag)

\* The items a sequence may hold
MaxItems == 2

Leaf(tag) ==
  [VR |-> TagVR[tag], value |-> IF tag = PatientName THEN "Bob" ELSE "P1", items |-> <<>>]

Flat(tags) == [tag \in tags |-> Leaf(tag)]

\* ds with the element of `tag` set to elem (Dataset.add), and without it
\* (del ds[tag])
put(ds, tag, elem) == [x \in DOMAIN ds \cup {tag} |-> IF x = tag THEN elem ELSE ds[x]]
without(ds, tag) == [x \in DOMAIN ds \ {tag} |-> ds[x]]

WithSequence(ds, items) ==
  put(ds, ReferencedSeriesSequence, [VR |-> "SQ", value |-> "", items |-> items])

\* The item lists of up to MaxItems items, the first from `first` and the
\* others from `others`
ItemLists(first, others) ==
  {<<>>} \cup UNION {{<<f>> \o r : f \in first, r \in [1..(n - 1) -> others]} :
                       n \in 1..MaxItems}

\* The datasets of the model: up to two levels of sequences, only the first
\* item of the top level sequence holding a sequence itself
InnerItems == {Flat(T) : T \in SUBSET {PatientName}}
OuterItems ==
  InnerItems \cup {WithSequence(f, l) : f \in InnerItems, l \in ItemLists(InnerItems, InnerItems)}
FlatTrees == {Flat(T) : T \in SUBSET {PatientName, PatientID}}
Trees ==
  FlatTrees \cup {WithSequence(f, l) : f \in FlatTrees, l \in ItemLists(OuterItems, InnerItems)}

\* The dataset at a location
RECURSIVE dataset_at(_, _)
dataset_at(ds, loc) ==
  IF loc = <<>> THEN ds
  ELSE dataset_at(ds[Head(loc).tag].items[Head(loc).item], Tail(loc))

\* ds with the dataset at a location replaced
RECURSIVE replace_at(_, _, _)
replace_at(ds, loc, new) ==
  IF loc = <<>> THEN new
  ELSE [ds EXCEPT ![Head(loc).tag].items[Head(loc).item] = replace_at(@, Tail(loc), new)]

\* A tag path is kept split on "." and parsed as _parse_tag returns each tag:
\* [tag, value_index], value_index being None, "%" or the digits of [k]
Step(tag, value_index) == [tag |-> tag, value_index |-> value_index]

\* int(value_index), counted from 1 as the items of the model are
item_number(value_index) ==
  CASE value_index = "0" -> 1
    [] value_index = "1" -> 2
    [] value_index = "2" -> 3

RECURSIVE enumerate_parent_elements(_, _, _)
RECURSIVE enumerate_parent_items(_, _, _, _)
\* A plausible slip: a step that names no sequence yields nothing instead of
\* raising.
enumerate_parent_elements_lenient(ds, tag_path, loc) ==
  LET tag_int == Head(tag_path).tag
      value_index == Head(tag_path).value_index
  IN IF Len(tag_path) = 1
     THEN [yielded |-> <<[parent |-> loc, tag_int |-> tag_int]>>, raised |-> FALSE]
     ELSE IF tag_int \notin DOMAIN ds \/ ds[tag_int].VR # "SQ"
     THEN [yielded |-> <<>>, raised |-> FALSE]
     ELSE LET elem == ds[tag_int]
              items_range == IF value_index = "%" \/ value_index = None
                             THEN [i \in 1..Len(elem.items) |-> i]
                             ELSE <<item_number(value_index)>>
          IN enumerate_parent_items(elem, Tail(tag_path),
                                    [i \in DOMAIN items_range |->
                                       Append(loc, [tag |-> tag_int, item |-> items_range[i]])],
                                    items_range)

\* enumerate_parent_elements(ds, tag_path), ds being at `loc`: the (parent,
\* tag_int) yielded, each parent by its location, up to the exception if one
\* is raised
enumerate_parent_elements(ds, tag_path, loc) ==
  LET tag_int == Head(tag_path).tag
      value_index == Head(tag_path).value_index
  IN IF Len(tag_path) = 1
     THEN [yielded |-> <<[parent |-> loc, tag_int |-> tag_int]>>, raised |-> FALSE]
     ELSE IF tag_int \notin DOMAIN ds THEN [yielded |-> <<>>, raised |-> TRUE]
     ELSE IF ds[tag_int].VR # "SQ" THEN [yielded |-> <<>>, raised |-> TRUE]
     ELSE LET elem == ds[tag_int]
              items_range == IF value_index = "%" \/ value_index = None
                             THEN [i \in 1..Len(elem.items) |-> i]
                             ELSE <<item_number(value_index)>>
          IN enumerate_parent_items(elem, Tail(tag_path),
                                    [i \in DOMAIN items_range |->
                                       Append(loc, [tag |-> tag_int, item |-> items_range[i]])],
                                    items_range)

\* The loop `for i in items_range`; elem.value[i] raises IndexError when the
\* sequence has no item i
enumerate_parent_items(elem, tag_path, locs, items_range) ==
  IF items_range = <<>> THEN [yielded |-> <<>>, raised |-> FALSE]
  ELSE IF Head(items_range) > Len(elem.items) THEN [yielded |-> <<>>, raised |-> TRUE]
  ELSE LET first == enumerate_parent_elements(elem.items[Head(items_range)], tag_path,
                                               Head(locs))
           rest == enumerate_parent_items(elem, tag_path, Tail(locs), Tail(items_range))
       IN IF first.raised THEN first
          ELSE [yielded |-> first.yielded \o rest.yielded, raised |-> rest.raised]

\* A plausible slip: an element that exists is kept whatever OverwriteIfExists
\* says.
RECURSIVE add_tag_keep(_, _, _)
add_tag_keep(ds, t, parents) ==
  IF parents = <<>> THEN ds
  ELSE LET parent_elem == dataset_at(ds, Head(parents).parent)
           tag_int == Head(parents).tag_int
           new_elem == [VR |-> t.VR, value |-> t.Value, items |-> <<>>]
       IN add_tag_keep(IF tag_int \in DOMAIN parent_elem THEN ds
                       ELSE replace_at(ds, Head(parents).parent,
                                       put(parent_elem, tag_int, new_elem)),
                       t, Tail(parents))

\* The body of the AddTags loop over the parents yielded for one entry
RECURSIVE add_tag(_, _, _)
add_tag(ds, t, parents) ==
  IF parents = <<>> THEN ds
  ELSE LET parent_elem == dataset_at(ds, Head(parents).parent)
           tag_int == Head(parents).tag_int
           new_elem == [VR |-> t.VR, value |-> t.Value, items |-> <<>>]
       IN add_tag(IF tag_int \in DOMAIN parent_elem /\ ~t.OverwriteIfExists THEN ds
                  ELSE replace_at(ds, Head(parents).parent, put(parent_elem, tag_int, new_elem)),
                  t, Tail(parents))

\* The AddTags section of apply_transformations on a dataset with
\* sequences: [ds, raised], with what was added before an exception
RECURSIVE add_tags_section(_, _)
add_tags_section(ds, ts) ==
  IF ts = <<>> THEN [ds |-> ds, raised |-> FALSE]
  ELSE LET found == enumerate_parent_elements(ds, Head(ts).Tag, <<>>)
           after == add_tag(ds, Head(ts), found.yielded)
       IN IF found.raised THEN [ds |-> after, raised |-> TRUE]
          ELSE add_tags_section(after, Tail(ts))

\* _elem_match_tag_pattern on an element [tag, VR], NUMBER and {VR} forms
nested_elem_match_tag_pattern(elem, tag_pattern) ==
  \/ tag_pattern.type = "NUMBER"
       /\ tag_hexa_match_pattern(tag_hexa(elem.tag), tag_pattern.value)
  \/ tag_pattern.type = "VR" /\ elem.VR = tag_pattern.value

\* A plausible slip: */ asks for a location deeper than the body, as +/ does.
nested_elem_sequence_match_deeper(elem_sequence, tag_path_pattern) ==
  LET tag_patterns == tag_path_pattern.tag_patterns
      prefix == tag_path_pattern.prefix
      d == Len(elem_sequence)
      n == Len(tag_patterns)
  IN /\ ~(prefix = "" /\ d # n)
     /\ ~(prefix = "+/" /\ ~(d > n))
     /\ ~(prefix = "*/" /\ ~(d > n))
     /\ \A i \in 1..n :
          nested_elem_match_tag_pattern(elem_sequence[d + 1 - i], tag_patterns[n + 1 - i])

\* _elem_sequence_match_tag_path_pattern on a chain of elements [tag, VR]
nested_elem_sequence_match(elem_sequence, tag_path_pattern) ==
  LET tag_patterns == tag_path_pattern.tag_patterns
      prefix == tag_path_pattern.prefix
      d == Len(elem_sequence)
      n == Len(tag_patterns)
  IN /\ ~(prefix = "" /\ d # n)
     /\ ~(prefix = "+/" /\ ~(d > n))
     /\ ~(prefix = "*/" /\ ~(d >= n))
     /\ \A i \in 1..n :
          nested_elem_match_tag_pattern(elem_sequence[d + 1 - i], tag_patterns[n + 1 - i])

\* A plausible slip: the patterns of except_tag_paths are not looked at.
excepted_never(elem_sequence, except_tag_paths) == FALSE

\* The first loop of the else branch: the element matches a pattern of
\* except_tag_paths
excepted(elem_sequence, except_tag_paths) ==
  \E i \in DOMAIN except_tag_paths :
    nested_elem_sequence_match(elem_sequence, except_tag_paths[i])

\* enumerate_elements_match_tag_path_patterns(ds, tag_paths, except_tag_paths,
\* sequence_prefix) from the i-th tag of the dataset at `loc` on: the
\* (elem, elem_full_tag, ds) yielded, in order
RECURSIVE enumerate_elements(_, _, _, _, _, _)
RECURSIVE enumerate_items(_, _, _, _, _, _)
enumerate_elements(ds, tag_paths, except_tag_paths, sequence_prefix, loc, i) ==
  IF i > Len(NestedTagOrder) THEN <<>>
  ELSE LET tag == NestedTagOrder[i]
           rest == enumerate_elements(ds, tag_paths, except_tag_paths,
                                      sequence_prefix, loc, i + 1)
       IN IF tag \notin DOMAIN ds THEN rest
          ELSE LET elem == ds[tag]
                   elem_sequence == Append(sequence_prefix, [tag |-> tag, VR |-> elem.VR])
               IN IF elem.VR = "SQ"
                  THEN enumerate_items(elem, tag_paths, except_tag_paths, elem_sequence,
                                       [k \in DOMAIN elem.items |->
                                          Append(loc, [tag |-> tag, item |-> k])], 1)
                         \o rest
                  ELSE IF excepted(elem_sequence, except_tag_paths) THEN rest
                  ELSE IF \E k \in DOMAIN tag_paths :
                            nested_elem_sequence_match(elem_sequence, tag_paths[k])
                  THEN <<[elem |-> [tag |-> tag, VR |-> elem.VR, value |-> elem.value],
                          elem_full_tag |-> [k \in DOMAIN elem_sequence |->
                                               tag_hexa(elem_sequence[k].tag)],
                          parent |-> loc]>> \o rest
                  ELSE rest

\* The loop `for item in elem` of a sequence element
enumerate_items(elem, tag_paths, except_tag_paths, elem_sequence, locs, k) ==
  IF k > Len(elem.items) THEN <<>>
  ELSE enumerate_elements(elem.items[k], tag_paths, except_tag_paths, elem_sequence,
                          locs[k], 1)
         \o enumerate_items(elem, tag_paths, except_tag_paths, elem_sequence, locs, k + 1)

\* A plausible slip: Empty removes the element as Remove does.
RECURSIVE delete_tag_always_remove(_, _, _)
delete_tag_always_remove(ds, t, found) ==
  IF found = <<>> THEN ds
  ELSE delete_tag_always_remove(
         replace_at(ds, Head(found).parent,
                    without(dataset_at(ds, Head(found).parent), Head(found).elem.tag)),
         t, Tail(found))

\* The body of the DeleteTags loop over the elements yielded for one entry:
\* del parent_elem[elem.tag], or elem.clear()
RECURSIVE delete_tag(_, _, _)
delete_tag(ds, t, found) ==
  IF found = <<>> THEN ds
  ELSE LET parent_elem == dataset_at(ds, Head(found).parent)
           tag == Head(found).elem.tag
       IN delete_tag(replace_at(ds, Head(found).parent,
                                IF t.Action = "Remove" THEN without(parent_elem, tag)
                                ELSE [parent_elem EXCEPT ![tag].value = ""]),
                     t, Tail(found))

\* The DeleteTags section of apply_transformations on a dataset with sequences
RECURSIVE delete_tags_section(_, _)
delete_tags_section(ds, ts) ==
  IF ts = <<>> THEN ds
  ELSE delete_tags_section(
         delete_tag(ds, Head(ts),
                    enumerate_elements(ds, Head(ts).TagPatterns, Head(ts).ExceptTagPatterns,
                                       <<>>, <<>>, 1)),
         Tail(ts))

\* The tag paths of the AddTags entries
TagPaths ==
  {<<Step(PatientName, None)>>,
   <<Step(ReferencedSeriesSequence, None), Step(PatientName, None)>>,
   <<Step(ReferencedSeriesSequence, "%"), Step(PatientID, None)>>,
   <<Step(ReferencedSeriesSequence, "1"), Step(PatientName, None)>>,
   <<Step(ReferencedSeriesSequence, "%"), Step(ReferencedSeriesSequence, "0"),
     Step(PatientName, None)>>,
   <<Step(ReferencedSeriesSequence, None), Step(ReferencedSeriesSequence, None),
     Step(PatientID, None)>>,
   <<Step(PatientName, None), Step(PatientID, None)>>}

AddEntries ==
  {[Tag |-> p, VR |-> "LO", Value |-> "YES", OverwriteIfExists |-> o] :
     p \in TagPaths, o \in BOOLEAN}

\* The tag path patterns of the DeleteTags entries
PatAnywhere(tag) ==
  [prefix |-> "*/", tag_patterns |-> <<[type |-> "NUMBER", value |-> tag_hexa(tag)]>>]
PatBelow(tag) ==
  [prefix |-> "+/", tag_patterns |-> <<[type |-> "NUMBER", value |-> tag_hexa(tag)]>>]
PatInSequence(tag) ==
  [prefix |-> "", tag_patterns |-> <<[type |-> "NUMBER",
                                      value |-> tag_hexa(ReferencedSeriesSequence)],
                                     [type |-> "NUMBER", value |-> tag_hexa(tag)]>>]

DeleteEntries ==
  {[TagPatterns |-> i, ExceptTagPatterns |-> e, Action |-> a] :
     i \in {<<PatAnywhere(PatientName)>>,
            <<PatNumber(PatientName), PatBelow(PatientID)>>,
            <<PatAnyVR("LO")>>,
            <<PatAnyVR("SQ"), PatAnyVR("PN")>>},
     e \in {<<>>, <<PatInSequence(PatientName)>>, <<PatNumber(PatientID), PatAnyVR("PN")>>},
     a \in {"Remove", "Empty"}}

\* The AddTags section runs, with no entry or with one
AddTags ==
  /\ tree.phase = "AddTags"
  /\ \E ts \in {<<>>} \cup {<<t>> : t \in AddEntries} :
       LET r == add_tags_section(tree.first, ts)
       IN tree' = [tree EXCEPT !.phase = IF r.raised THEN "failed" ELSE "DeleteTags",
                               !.AddTags = ts,
                               !.added = r.ds]
  /\ UNCHANGED <<sc, px, heap, txt, cand, pat, qry, que, pool, config, store, tape, orthanc, wk>>

\* The DeleteTags section runs with one entry; `yielded` is what the
\* enumeration gave to its loop
DeleteTags ==
  /\ tree.phase = "DeleteTags"
  /\ \E t \in DeleteEntries :
       tree' = [tree EXCEPT !.phase = "done",
                            !.DeleteTags = <<t>>,
                            !.yielded = enumerate_elements(tree.added, t.TagPatterns,
                                                           t.ExceptTagPatterns, <<>>, <<>>, 1),
                            !.ds = delete_tags_section(tree.added, <<t>>)]
  /\ UNCHANGED <<sc, px, heap, txt, cand, pat, qry, que, pool, config, store, tape, orthanc, wk>>

InitTree ==
  /\ sc = NoScope
  /\ px = NoPixels
  /\ heap = NoHeap
  /\ \E ds \in Trees :
       tree = [phase |-> "AddTags", first |-> ds, AddTags |-> <<>>, added |-> ds,
               DeleteTags |-> <<>>, yielded |-> <<>>, ds |-> ds]
  /\ txt = NoText
  /\ cand = NoCandidate
  /\ pat = NoPattern
  /\ qry = NoQuery
  /\ que = NoQueue
  /\ pool = NoPooler
  /\ config = 1
  /\ store = [world \in Worlds |-> {}]
  /\ tape = <<>>
  /\ orthanc = AnyAnswer
  /\ wk = IdleWorkers

NextTree == AddTags \/ DeleteTags

SpecTree == InitTree /\ [][NextTree]_vars

\* ------------------------------------------------- AddTags and DeleteTags

\* The AddTags section has run with an entry
Added == tree.phase \in {"DeleteTags", "failed", "done"} /\ tree.AddTags # <<>>

\* The (parent, tag) the tag path of the entry gave to the loop
Resolved ==
  Range(enumerate_parent_elements(tree.first, tree.AddTags[1].Tag, <<>>).yielded)

\* C26: for every (parent, tag) resolved for an AddTags entry, an element of
\* that tag that the parent already holds stays as it was when
\* OverwriteIfExists is false; otherwise the parent holds, after the step, an
\* element of that tag with the VR and the Value of the entry. The other
\* elements of the parent stay as they were.
C26_Overwrite ==
  Added =>
    LET t == tree.AddTags[1]
    IN \A r \in Resolved :
         LET before == dataset_at(tree.first, r.parent)
             after == dataset_at(tree.added, r.parent)
         IN /\ r.tag_int \in DOMAIN after
            /\ IF r.tag_int \in DOMAIN before /\ ~t.OverwriteIfExists
               THEN after[r.tag_int] = before[r.tag_int]
               ELSE after[r.tag_int].VR = t.VR /\ after[r.tag_int].value = t.Value
            /\ DOMAIN after = DOMAIN before \cup {r.tag_int}
            /\ \A x \in DOMAIN before \ {r.tag_int} : after[x] = before[x]

\* C26, its case: an entry that does not overwrite resolved to two items of
\* a sequence, one that held the tag and kept its element and one that did
\* not and got the new element
C26_Witness ==
  /\ Added
  /\ ~tree.AddTags[1].OverwriteIfExists
  /\ \E r1, r2 \in Resolved :
       /\ r1.parent # <<>> /\ r2.parent # <<>>
       /\ r1.tag_int \in DOMAIN dataset_at(tree.first, r1.parent)
       /\ dataset_at(tree.added, r1.parent)[r1.tag_int].value = "Bob"
       /\ r2.tag_int \notin DOMAIN dataset_at(tree.first, r2.parent)
       /\ dataset_at(tree.added, r2.parent)[r2.tag_int].value = "YES"

\* The items of a sequence of n items that a step of a tag path names
Selected(step, n) ==
  IF step.value_index = "%" \/ step.value_index = None THEN 1..n
  ELSE {item_number(step.value_index)} \cap 1..n

\* The datasets of the first tree in which step i of the tag path is looked
\* up, by their locations
RECURSIVE Reached(_, _)
Reached(path, i) ==
  IF i = 1 THEN {<<>>}
  ELSE LET step == path[i - 1]
       IN UNION {LET ds == dataset_at(tree.first, loc)
                 IN IF step.tag \in DOMAIN ds /\ ds[step.tag].VR = "SQ"
                    THEN {Append(loc, [tag |-> step.tag, item |-> k]) :
                            k \in Selected(step, Len(ds[step.tag].items))}
                    ELSE {} : loc \in Reached(path, i - 1)}

\* A step before the last names an element that a dataset reached does not
\* hold, or one that is no sequence
Dangling(path) ==
  \E i \in 1..(Len(path) - 1) : \E loc \in Reached(path, i) :
    LET ds == dataset_at(tree.first, loc)
    IN path[i].tag \notin DOMAIN ds \/ ds[path[i].tag].VR # "SQ"

\* The sequence elements of a tree, each by the location of its dataset
RECURSIVE SequencesOf(_, _)
SequencesOf(ds, loc) ==
  UNION {IF ds[tag].VR # "SQ" THEN {}
         ELSE {[parent |-> loc, tag |-> tag, items |-> Len(ds[tag].items)]}
                \cup UNION {SequencesOf(ds[tag].items[k],
                                        Append(loc, [tag |-> tag, item |-> k])) :
                              k \in DOMAIN ds[tag].items} : tag \in DOMAIN ds}

\* C27: AddTags raises when a step before the last of the tag path names an
\* element that the dataset it is looked up in does not hold, or whose VR is
\* not SQ; no sequence and no item is ever created.
C27_NoIntermediate ==
  Added =>
    /\ Dangling(tree.AddTags[1].Tag) => tree.phase = "failed"
    /\ SequencesOf(tree.added, <<>>) \subseteq SequencesOf(tree.first, <<>>)

\* C27, its case: the second item of a sequence lacks the inner sequence the
\* path names, so the section raised after the element was added under the
\* first item
C27_Witness ==
  /\ Added
  /\ Dangling(tree.AddTags[1].Tag)
  /\ tree.phase = "failed"
  /\ tree.added # tree.first

\* A step before the last has no item number and names, in a dataset
\* reached, a sequence that does not hold exactly one item
Ambiguous(path) ==
  \E i \in 1..(Len(path) - 1) : \E loc \in Reached(path, i) :
    LET ds == dataset_at(tree.first, loc)
    IN /\ path[i].value_index = None
       /\ path[i].tag \in DOMAIN ds
       /\ ds[path[i].tag].VR = "SQ"
       /\ Len(ds[path[i].tag].items) # 1

\* The parents the walk gave to the AddTags loop are the datasets reached at
\* the last step: item k alone under [k], every item under [%] and under a
\* step without item number
C28_Descent ==
  (Added /\ tree.phase # "failed") =>
    {r.parent : r \in Resolved} = Reached(tree.AddTags[1].Tag, Len(tree.AddTags[1].Tag))

\* C28: a step before the last without [k] or [%] stands for [%] when the
\* sequence holds exactly one item and makes the walk fail when it holds
\* none or more than one; with [k] the walk goes into item k only and with
\* [%] into every item.
C28_MissingIndex ==
  /\ (Added /\ Ambiguous(tree.AddTags[1].Tag)) => tree.phase = "failed"
  /\ C28_Descent

\* The elements of a tree that are no sequences, each with the location of
\* the dataset that holds it and the chain of elements down to it
RECURSIVE LeavesOf(_, _, _)
LeavesOf(ds, loc, prefix) ==
  UNION {LET chain == Append(prefix, [tag |-> tag, VR |-> ds[tag].VR])
         IN IF ds[tag].VR = "SQ"
            THEN UNION {LeavesOf(ds[tag].items[k], Append(loc, [tag |-> tag, item |-> k]),
                                 chain) : k \in DOMAIN ds[tag].items}
            ELSE {[parent |-> loc, tag |-> tag, elem_sequence |-> chain]} :
         tag \in DOMAIN ds}

\* The DeleteTags section has run with an entry
Deleted == tree.phase = "done"

Included(l, t) ==
  \E i \in DOMAIN t.TagPatterns : nested_elem_sequence_match(l.elem_sequence, t.TagPatterns[i])
Excluded(l, t) ==
  \E i \in DOMAIN t.ExceptTagPatterns :
    nested_elem_sequence_match(l.elem_sequence, t.ExceptTagPatterns[i])

\* The leaves an entry is about: they match one of its patterns and none of
\* its except-patterns
Matching(l, t) == Included(l, t) /\ ~Excluded(l, t)

\* C29: a DeleteTags entry deletes from its parent every leaf element that
\* matches its patterns and none of its except-patterns when it runs, the
\* elements AddTags added before included, when Action is Remove, and keeps
\* it with an empty value when Action is Empty; the other elements stay as
\* they were.
C29_Delete ==
  Deleted =>
    LET t == tree.DeleteTags[1]
    IN /\ \A l \in LeavesOf(tree.added, <<>>, <<>>) :
            LET before == dataset_at(tree.added, l.parent)
                after == dataset_at(tree.ds, l.parent)
            IN IF ~Matching(l, t)
               THEN l.tag \in DOMAIN after /\ after[l.tag] = before[l.tag]
               ELSE IF t.Action = "Remove" THEN l.tag \notin DOMAIN after
               ELSE /\ l.tag \in DOMAIN after
                    /\ after[l.tag] = [before[l.tag] EXCEPT !.value = ""]
       /\ SequencesOf(tree.ds, <<>>) = SequencesOf(tree.added, <<>>)
       /\ {[parent |-> l.parent, tag |-> l.tag] : l \in LeavesOf(tree.ds, <<>>, <<>>)}
            \subseteq {[parent |-> l.parent, tag |-> l.tag] :
                         l \in LeavesOf(tree.added, <<>>, <<>>)}

\* C29, its case: an element that AddTags had added inside a sequence item
\* was removed, next to a leaf that does not match and was left
C29_Witness ==
  /\ Deleted
  /\ tree.DeleteTags[1].Action = "Remove"
  /\ \E l, m \in LeavesOf(tree.added, <<>>, <<>>) :
       /\ l.parent # <<>>
       /\ l.tag \notin DOMAIN dataset_at(tree.first, l.parent)
       /\ Matching(l, tree.DeleteTags[1])
       /\ l.tag \notin DOMAIN dataset_at(tree.ds, l.parent)
       /\ ~Matching(m, tree.DeleteTags[1])
       /\ m.tag \in DOMAIN dataset_at(tree.ds, m.parent)

\* C30: enumerate_elements_match_tag_path_patterns yields (element, hex path,
\* parent dataset) for exactly the elements that are no sequences, at any
\* depth, that match one of the patterns and none of the except-patterns,
\* each once; an element that matches both is not yielded and no sequence
\* element is.
C30_Enumerate ==
  Deleted =>
    LET t == tree.DeleteTags[1]
        leaves == LeavesOf(tree.added, <<>>, <<>>)
    IN /\ {[parent |-> y.parent, tag |-> y.elem.tag] : y \in Range(tree.yielded)}
            = {[parent |-> l.parent, tag |-> l.tag] : l \in {m \in leaves : Matching(m, t)}}
       /\ Cardinality(Range(tree.yielded)) = Len(tree.yielded)
       /\ \A y \in Range(tree.yielded) :
            /\ y.elem.VR # "SQ"
            /\ y.elem.tag \in DOMAIN dataset_at(tree.added, y.parent)
            /\ LET elem == dataset_at(tree.added, y.parent)[y.elem.tag]
               IN y.elem.VR = elem.VR /\ y.elem.value = elem.value
            /\ \E l \in leaves :
                 /\ l.parent = y.parent /\ l.tag = y.elem.tag
                 /\ y.elem_full_tag = [k \in DOMAIN l.elem_sequence |->
                                         tag_hexa(l.elem_sequence[k].tag)]

\* C30, its case: leaves were yielded from the top level and from two levels
\* of sequences down, a leaf that matches a pattern and an except-pattern
\* was not, and a pattern of the entry matches the sequence elements
C30_Witness ==
  /\ Deleted
  /\ \E y1, y2 \in Range(tree.yielded) : Len(y1.parent) = 0 /\ Len(y2.parent) = 2
  /\ \E l \in LeavesOf(tree.added, <<>>, <<>>) :
       Included(l, tree.DeleteTags[1]) /\ Excluded(l, tree.DeleteTags[1])
  /\ \E s \in SequencesOf(tree.added, <<>>) :
       \E i \in DOMAIN tree.DeleteTags[1].TagPatterns :
         nested_elem_sequence_match(<<[tag |-> s.tag, VR |-> "SQ"]>>,
                                    tree.DeleteTags[1].TagPatterns[i])

\* ------------------------------------------------- the depth of a pattern

\* The tag path patterns of the DeleteTags entry that ran
EntryPatterns ==
  Range(tree.DeleteTags[1].TagPatterns) \cup Range(tree.DeleteTags[1].ExceptTagPatterns)

Prefixes == {"", "+/", "*/"}

WithPrefix(p, prefix) == [p EXCEPT !.prefix = prefix]

\* What a prefix asks of the depth d of a location, for a body of n steps
DepthFits(prefix, d, n) ==
  CASE prefix = "" -> d = n
    [] prefix = "+/" -> d > n
    [] prefix = "*/" -> d >= n

C31_Rule ==
  \A l \in LeavesOf(tree.added, <<>>, <<>>) : \A p \in EntryPatterns : \A prefix \in Prefixes :
    LET d == Len(l.elem_sequence)
        n == Len(p.tag_patterns)
    IN nested_elem_sequence_match(l.elem_sequence, WithPrefix(p, prefix))
         <=> /\ DepthFits(prefix, d, n)
             /\ \A i \in 1..n :
                  nested_elem_match_tag_pattern(l.elem_sequence[d - n + i], p.tag_patterns[i])

C31_TopLevel ==
  \A l \in LeavesOf(tree.added, <<>>, <<>>) : \A p \in EntryPatterns :
    Len(l.elem_sequence) = 1 =>
      (nested_elem_sequence_match(l.elem_sequence, WithPrefix(p, "*/"))
         <=> nested_elem_sequence_match(l.elem_sequence, WithPrefix(p, "")))

Digits == {"0", "1", "2", "3", "4", "5", "6", "7", "8", "9"}
UpperLetters ==
  {"A", "B", "C", "D", "E", "F", "G", "H", "I", "J", "K", "L", "M",
   "N", "O", "P", "Q", "R", "S", "T", "U", "V", "W", "X", "Y", "Z"}
LowerLetters ==
  {"a", "b", "c", "d", "e", "f", "g", "h", "i", "j", "k", "l", "m",
   "n", "o", "p", "q", "r", "s", "t", "u", "v", "w", "x", "y", "z"}

\* re.fullmatch(TAG_PATH_PATTERN_KEYWORD, tag_pattern): [A-Za-z0-9\*]+
fullmatch_keyword(tag_pattern) ==
  /\ tag_pattern # <<>>
  /\ \A i \in DOMAIN tag_pattern :
       tag_pattern[i] \in UpperLetters \cup LowerLetters \cup Digits \cup {"*"}

\* re.fullmatch(TAG_PATH_PATERN_NUMBER, tag_pattern): [0-9A-FX@]{8}
fullmatch_number(tag_pattern) ==
  /\ Len(tag_pattern) = 8
  /\ \A i \in DOMAIN tag_pattern :
       tag_pattern[i] \in Digits \cup {"A", "B", "C", "D", "E", "F", "X", "@"}

\* re.fullmatch(TAG_PATH_PATTERN_VR, tag_pattern): \{[A-Z]{2}\}
fullmatch_vr(tag_pattern) ==
  /\ Len(tag_pattern) = 4
  /\ tag_pattern[1] = "{" /\ tag_pattern[4] = "}"
  /\ tag_pattern[2] \in UpperLetters /\ tag_pattern[3] \in UpperLetters

\* re.fullmatch of the keyword pattern, each * standing for .*, on a keyword
RECURSIVE fullmatch_wildcard(_, _)
fullmatch_wildcard(re_pattern, keyword) ==
  IF re_pattern = <<>> THEN keyword = <<>>
  ELSE IF Head(re_pattern) = "*"
  THEN \E k \in 0..Len(keyword) :
         fullmatch_wildcard(Tail(re_pattern), SubSeq(keyword, k + 1, Len(keyword)))
  ELSE /\ keyword # <<>>
       /\ Head(keyword) = Head(re_pattern)
       /\ fullmatch_wildcard(Tail(re_pattern), Tail(keyword))

\* _elem_match_tag_pattern on a pattern as written
elem_match_written(elem, tag_pattern) ==
  \/ /\ elem.keyword # <<>>
     /\ fullmatch_keyword(tag_pattern)
     /\ fullmatch_wildcard(tag_pattern, elem.keyword)
  \/ /\ fullmatch_number(tag_pattern)
     /\ tag_hexa_match_pattern(get_elem_tag_hexa(elem.tag), tag_pattern)
  \/ /\ fullmatch_vr(tag_pattern)
     /\ elem.VR = <<tag_pattern[2], tag_pattern[3]>>

\* is_tag_path_pattern for a pattern of one step, without the private
\* creator form
is_tag_path_pattern(tag_pattern) ==
  fullmatch_keyword(tag_pattern) \/ fullmatch_number(tag_pattern) \/ fullmatch_vr(tag_pattern)

\* The elements a pattern is tried on
WrittenElements ==
  {[tag |-> StudyInstanceUID, VR |-> <<"U", "I">>,
    keyword |-> <<"S", "t", "u", "d", "y", "I", "n", "s", "t", "a", "n", "c", "e", "U", "I", "D">>],
   [tag |-> SeriesInstanceUID, VR |-> <<"U", "I">>,
    keyword |-> <<"S", "e", "r", "i", "e", "s", "I", "n", "s", "t", "a", "n", "c", "e", "U", "I", "D">>],
   [tag |-> PatientName, VR |-> <<"P", "N">>,
    keyword |-> <<"P", "a", "t", "i", "e", "n", "t", "N", "a", "m", "e">>]}

\* The hex letters in lower case and back
lower_hex(c) ==
  CASE c = "A" -> "a" [] c = "B" -> "b" [] c = "C" -> "c"
    [] c = "D" -> "d" [] c = "E" -> "e" [] c = "F" -> "f" [] OTHER -> c
upper_hex(c) ==
  CASE c = "a" -> "A" [] c = "b" -> "B" [] c = "c" -> "C"
    [] c = "d" -> "D" [] c = "e" -> "E" [] c = "f" -> "F" [] OTHER -> c

\* The patterns of eight characters written from the tag of an element: each
\* character kept or X, the last two also in lower case, @ or another digit
HexPatterns(elem) ==
  LET h == get_elem_tag_hexa(elem.tag)
  IN {[i \in 1..8 |-> IF i <= 6 THEN (IF i \in kept THEN h[i] ELSE "X")
                      ELSE IF i = 7 THEN c7 ELSE c8] :
        kept \in SUBSET (1..6),
        c7 \in {h[7], lower_hex(h[7]), "X", "@", "1"},
        c8 \in {h[8], lower_hex(h[8]), "X", "@", "1"}}

OtherPatterns ==
  {<<"S", "t", "u", "d", "y", "*">>, <<"*", "U", "I", "D">>, <<"{", "U", "I", "}">>,
   <<"{", "P", "N", "}">>, <<"P", "a", "t", "i", "e", "n", "t", "N", "a", "m", "e">>}

\* One pattern is tried on one element
MatchPattern ==
  /\ ~pat.done
  /\ \E elem \in WrittenElements : \E p \in HexPatterns(elem) \cup OtherPatterns :
       pat' = [done |-> TRUE, elem |-> elem, tag_pattern |-> p,
               valid |-> is_tag_path_pattern(p),
               result |-> elem_match_written(elem, p)]
  /\ UNCHANGED <<sc, px, heap, tree, txt, cand, qry, que, pool, config, store, tape,
                 orthanc, wk>>

InitPattern ==
  /\ sc = NoScope
  /\ px = NoPixels
  /\ heap = NoHeap
  /\ tree = NoTree
  /\ txt = NoText
  /\ cand = NoCandidate
  /\ pat = [done |-> FALSE]
  /\ qry = NoQuery
  /\ que = NoQueue
  /\ pool = NoPooler
  /\ config = 1
  /\ store = [world \in Worlds |-> {}]
  /\ tape = <<>>
  /\ orthanc = AnyAnswer
  /\ wk = IdleWorkers

NextPattern == MatchPattern

SpecPattern == InitPattern /\ [][NextPattern]_vars

\* A pattern of eight characters among the hex digits in either case, X and @
HexStep(p) ==
  /\ Len(p) = 8
  /\ \A i \in 1..8 :
       p[i] \in Digits \cup {"A", "B", "C", "D", "E", "F", "a", "b", "c", "d", "e", "f", "X", "@"}

\* What the characters of a hex step ask of the tag of an element
HexAgrees(p, elem) ==
  LET h == get_elem_tag_hexa(elem.tag)
  IN \A i \in 1..8 :
       \/ p[i] = "X"
       \/ p[i] = "@" /\ h[i] \in {"1", "3", "5", "7", "9", "B", "D", "F"}
       \/ upper_hex(p[i]) = h[i]

Tried == "result" \in DOMAIN pat

\* C32: a hex step pattern of eight characters matches an element exactly
\* when, character by character against the eight hex digits of its tag,
\* each character is X, or @ on an odd digit, or the same hex digit whatever
\* its case; so a pattern written in lower case matches what its upper case
\* form matches.
C32_HexStep ==
  (Tried /\ HexStep(pat.tag_pattern)) =>
    (pat.result <=> HexAgrees(pat.tag_pattern, pat.elem))

\* The part of C32 the code keeps: the rule for patterns written with upper
\* case letters
C32_UpperHex ==
  (Tried /\ fullmatch_number(pat.tag_pattern)) =>
    (pat.result <=> HexAgrees(pat.tag_pattern, pat.elem))

\* ------------------------------------------------- the filter compiler
\* A query is kept as re.finditer cuts it: the texts before, between and
\* after its conditions, each a sequence of characters, around the
\* conditions. The texts of the model begin and end with a blank or a
\* parenthesis, so that the conditions found are the ones written.

Tab == "\t"

\* str.lower() on the characters of the texts
lower_char(c) ==
  CASE c = "A" -> "a" [] c = "N" -> "n" [] c = "D" -> "d"
    [] c = "O" -> "o" [] c = "R" -> "r" [] OTHER -> c

\* str.replace(old, new), the occurrences taken from the left
RECURSIVE str_replace(_, _, _)
str_replace(string, old, new) ==
  IF Len(string) < Len(old) THEN string
  ELSE IF SubSeq(string, 1, Len(old)) = old
  THEN new \o str_replace(SubSeq(string, Len(old) + 1, Len(string)), old, new)
  ELSE <<Head(string)>> \o str_replace(Tail(string), old, new)

\* str.count(sub), for a sub that cannot overlap itself
str_count(string, sub) ==
  Cardinality({i \in 1..(Len(string) - Len(sub) + 1) :
                 SubSeq(string, i, i + Len(sub) - 1) = sub})

\* The characters of the assert of parse_between_conditions: '()&| '
accepted_chars == {"(", ")", "&", "|", " "}

\* parse_between_conditions(string): [raised, new_string]
parse_between_conditions(string) ==
  LET lowered == [i \in DOMAIN string |-> lower_char(string[i])]
      no_blank == SelectSeq(lowered, LAMBDA c : c # " ")
      new_string == str_replace(str_replace(no_blank, <<"a", "n", "d">>, <<" ", "&", "&", " ">>),
                                <<"o", "r">>, <<" ", "|", "|", " ">>)
  IN [raised |-> \E i \in DOMAIN new_string : new_string[i] \notin accepted_chars,
      new_string |-> new_string]

\* The loop of translate_query_to_jsonpath over the conditions, then the text
\* at the right of the last one: query.texts[i] is the text at the left of
\* condition i, and the last text is the one at the right. A text is parsed
\* only when it is not empty. It gives [raised, pg_query,
\* str_between_conditions].
RECURSIVE translate_from(_, _)
translate_from(query, i) ==
  IF i = 0 THEN [raised |-> FALSE, pg_query |-> <<>>, str_between_conditions |-> <<>>]
  ELSE LET prev == translate_from(query, i - 1)
           text == query.texts[i]
           tmp == parse_between_conditions(text)
           condition == IF i <= Len(query.conditions) THEN <<query.conditions[i]>> ELSE <<>>
       IN IF prev.raised THEN prev
          ELSE IF text = <<>>
          THEN [prev EXCEPT !.pg_query = @ \o condition]
          ELSE IF tmp.raised THEN [prev EXCEPT !.raised = TRUE]
          ELSE [raised |-> FALSE,
                pg_query |-> prev.pg_query \o tmp.new_string \o condition,
                str_between_conditions |-> prev.str_between_conditions \o tmp.new_string]

\* translate_query_to_jsonpath(query) for a query with a condition:
\* [raised, pg_query]
translate_query_to_jsonpath(query) ==
  LET r == translate_from(query, Len(query.texts))
  IN IF r.raised THEN [raised |-> TRUE, pg_query |-> <<>>]
     ELSE IF str_count(r.str_between_conditions, <<"(">>)
               # str_count(r.str_between_conditions, <<")">>)
     THEN [raised |-> TRUE, pg_query |-> <<>>]
     ELSE IF str_count(r.str_between_conditions, <<"(", ")">>) # 0
     THEN [raised |-> TRUE, pg_query |-> <<>>]
     ELSE [raised |-> FALSE, pg_query |-> r.pg_query]

\* The texts written around the conditions
BetweenTexts ==
  {<<>>,
   <<" ", "A", "N", "D", " ">>,
   <<" ", "o", "r", " ">>,
   <<"(">>,
   <<")">>,
   <<" ", "A", "N", "D", " ", "(">>,
   <<")", " ", "O", "R", " ", "(">>,
   <<" ", "&", " ">>,
   <<" ", "|", " ">>,
   <<Tab>>,
   <<" ", ",", " ">>,
   <<"(", " ", ")">>}

\* The JSONPath of the conditions `Modality Exists` and `PatientName Exists`
TranslatedConditions == <<"exists(@.00080060)", "exists(@.00100010)">>

\* The queries with one condition and with two
Queries ==
  {[texts |-> t, conditions |-> SubSeq(TranslatedConditions, 1, Len(t) - 1)] :
     t \in [1..2 -> BetweenTexts] \cup [1..3 -> BetweenTexts]}

\* A label query is compiled
Compile ==
  /\ ~qry.done
  /\ \E query \in Queries :
       LET r == translate_query_to_jsonpath(query)
       IN qry' = [done |-> TRUE, query |-> query, raised |-> r.raised,
                  pg_query |-> r.pg_query]
  /\ UNCHANGED <<sc, px, heap, tree, txt, cand, pat, que, pool, config, store, tape,
                 orthanc, wk>>

InitQuery ==
  /\ sc = NoScope
  /\ px = NoPixels
  /\ heap = NoHeap
  /\ tree = NoTree
  /\ txt = NoText
  /\ cand = NoCandidate
  /\ pat = NoPattern
  /\ qry = [done |-> FALSE]
  /\ que = NoQueue
  /\ pool = NoPooler
  /\ config = 1
  /\ store = [world \in Worlds |-> {}]
  /\ tape = <<>>
  /\ orthanc = AnyAnswer
  /\ wk = IdleWorkers

NextQuery == Compile

SpecQuery == InitQuery /\ [][NextQuery]_vars

Compiled == "query" \in DOMAIN qry

\* A text made only of parentheses, whitespace and the keywords AND and OR
RECURSIVE OnlyKeywords(_)
OnlyKeywords(text) ==
  \/ text = <<>>
  \/ /\ text # <<>>
     /\ Head(text) \in {"(", ")", " ", Tab}
     /\ OnlyKeywords(Tail(text))
  \/ /\ Len(text) >= 3
     /\ [i \in 1..3 |-> lower_char(text[i])] = <<"a", "n", "d">>
     /\ OnlyKeywords(SubSeq(text, 4, Len(text)))
  \/ /\ Len(text) >= 2
     /\ [i \in 1..2 |-> lower_char(text[i])] = <<"o", "r">>
     /\ OnlyKeywords(SubSeq(text, 3, Len(text)))

\* The parentheses of a query and its conditions, in the order written
RECURSIVE Skeleton(_, _)
Skeleton(query, i) ==
  IF i > Len(query.texts) THEN <<>>
  ELSE SelectSeq(query.texts[i], LAMBDA c : c \in {"(", ")"})
         \o (IF i <= Len(query.conditions) THEN <<"C">> ELSE <<>>)
         \o Skeleton(query, i + 1)

\* The depth of parentheses after the first k symbols of a skeleton
Depth(sk, k) ==
  Cardinality({i \in 1..k : sk[i] = "("}) - Cardinality({i \in 1..k : sk[i] = ")"})

\* Every parenthesis closes one that was opened, none stays open and none
\* is closed right after it was opened
BalancedNonEmpty(query) ==
  LET sk == Skeleton(query, 1)
  IN /\ \A k \in 1..Len(sk) : Depth(sk, k) >= 0
     /\ Depth(sk, Len(sk)) = 0
     /\ \A k \in 1..(Len(sk) - 1) : ~(sk[k] = "(" /\ sk[k + 1] = ")")

\* C33: the compiler accepts a query only if the texts before, between and
\* after its conditions are made of parentheses, whitespace and the
\* keywords AND and OR alone, and it accepts every query whose texts are made
\* so with balanced parentheses none of which is empty.
C33_Between ==
  Compiled =>
    /\ ~qry.raised => \A i \in DOMAIN qry.query.texts : OnlyKeywords(qry.query.texts[i])
    /\ ((\A i \in DOMAIN qry.query.texts : OnlyKeywords(qry.query.texts[i]))
          /\ BalancedNonEmpty(qry.query)) => ~qry.raised

\* The part of C33 the code keeps: a text with a character that is no
\* parenthesis, blank, & or | and no letter of the two keywords is refused
C33_OtherCharacter ==
  Compiled =>
    ((\E i \in DOMAIN qry.query.texts : \E k \in DOMAIN qry.query.texts[i] :
        qry.query.texts[i][k] \in {",", Tab}) => qry.raised)

\* ------------------------------------------- the target transfer syntax

\* The destination of a worker: the Transcode of its operations, and without
\* one the transfer syntax of the instance as it was first loaded
Destination(w) ==
  IF "Transcode" \in DOMAIN wk[w].transformations THEN wk[w].transformations.Transcode
  ELSE FirstLoaded(w).TransferSyntaxUID

\* C35: apply_transformations returns None if and only if the current transfer
\* syntax of the instance equals the destination, and the destination
\* otherwise; the destination is the effective Transcode when the operations
\* have one and otherwise the transfer syntax recorded at load (the one passed
\* on reload). So an instance reloaded as uncompressed little endian for the
\* masking, without Transcode, gets its original transfer syntax as target, and
\* an instance never reloaded and without Transcode gets None.
C35_Target ==
  \A w \in Workers :
    wk[w].pc = "applied" =>
      /\ (wk[w].returned = None) <=> (wk[w].dicom.TransferSyntaxUID = Destination(w))
      /\ wk[w].returned # None => wk[w].returned = Destination(w)
      /\ "Transcode" \notin DOMAIN wk[w].transformations =>
           IF wk[w].reloaded
           THEN /\ wk[w].dicom.TransferSyntaxUID = ExplicitVRLittleEndian
                /\ wk[w].returned = FirstLoaded(w).TransferSyntaxUID
           ELSE wk[w].returned = None

\* C35, its case: one instance was reloaded as uncompressed little endian for
\* the masking and, without Transcode, got its original transfer syntax as
\* target; another was never reloaded and, without Transcode, got None
C35_Witness ==
  \E a, b \in Workers :
    /\ wk[a].pc = "applied" /\ wk[a].reloaded
    /\ "Transcode" \notin DOMAIN wk[a].transformations
    /\ FirstLoaded(a).TransferSyntaxUID # ExplicitVRLittleEndian
    /\ wk[a].dicom.TransferSyntaxUID = ExplicitVRLittleEndian
    /\ wk[a].returned = FirstLoaded(a).TransferSyntaxUID
    /\ wk[b].pc = "applied" /\ ~wk[b].reloaded
    /\ "Transcode" \notin DOMAIN wk[b].transformations
    /\ wk[b].returned = None

\* C35, with Transcode: an instance got the Transcode of its operations as
\* target, and another, already in that transfer syntax, got None
C35_Transcoded ==
  \E a, b \in Workers :
    /\ wk[a].pc = "applied" /\ "Transcode" \in DOMAIN wk[a].transformations
    /\ wk[a].returned = wk[a].transformations.Transcode
    /\ wk[b].pc = "applied" /\ "Transcode" \in DOMAIN wk[b].transformations
    /\ wk[b].returned = None

\* ------------------------------------------- entries without ReuseMapping

\* The element a worker is about to process, and its entry
NextItem(w) == wk[w].items[wk[w].cursor]

\* A worker is about to process an element of a ShiftDateTime or
\* RandomizeText entry without ReuseMapping
AtFreshItem(w) ==
  /\ wk[w].pc = "apply"
  /\ wk[w].cursor <= Len(wk[w].items)
  /\ NextItem(w).kind \in {"ShiftDateTime", "RandomizeText"}
  /\ "ReuseMapping" \notin DOMAIN NextEntry(w)

\* The values a fresh draw can give for the element
FreshValues(w) ==
  IF NextItem(w).kind = "RandomizeText" THEN {random_text(raw) : raw \in RawDraws}
  ELSE {shift_date(wk[w].dicom.ds[NextItem(w).tag], randint(raw, NextEntry(w).ShiftBy)) :
          raw \in RawDraws}

C36_Step ==
  \A w \in Workers :
    (AtFreshItem(w) /\ wk'[w] # wk[w]) =>
      /\ store' = store
      /\ ~wk'[w].last_call.made
      /\ wk'[w].pc = "apply"
      /\ wk'[w].cursor = wk[w].cursor + 1
      /\ ~wk'[w].logs[Len(wk'[w].logs)].call.made
      /\ wk'[w].dicom.ds[NextItem(w).tag] \in FreshValues(w)
      /\ wk'[w].dicom.ds[NextItem(w).tag] = wk'[w].logs[Len(wk'[w].logs)].NewValue

\* C36: when a ShiftDateTime or RandomizeText entry has no ReuseMapping,
\* processing one of its elements makes no call to the mapping store: the
\* store is left as it was and the freshly drawn value is written to the
\* element, whatever the store holds for the original value.
C36_NoMapping == [][C36_Step]_vars

\* The last element a worker processed
LastLog(w) == wk[w].logs[Len(wk[w].logs)]

\* C36, its case: the store held a new value for a name; a worker processed
\* the same name under an entry without ReuseMapping and wrote another value
C36_Witness ==
  \E w \in Workers :
    /\ wk[w].pc = "apply" /\ wk[w].logs # <<>>
    /\ LastLog(w).kind = "RandomizeText"
    /\ "ReuseMapping" \notin DOMAIN wk[w].transformations.RandomizeText[LastLog(w).entry]
    /\ ~LastLog(w).call.made
    /\ \E r \in store[wk[w].world] :
         /\ r.old_value = lower(LastLog(w).OldValue)
         /\ r.new_value # LastLog(w).NewValue
         /\ wk[w].dicom.ds[LastLog(w).tag] = LastLog(w).NewValue

\* C36, for a date: the store held a shifted date for the study date, and a
\* worker shifted the same date otherwise under an entry without ReuseMapping
C36_Date ==
  \E w \in Workers :
    /\ wk[w].logs # <<>>
    /\ LastLog(w).kind = "ShiftDateTime"
    /\ "ReuseMapping" \notin DOMAIN wk[w].transformations.ShiftDateTime[LastLog(w).entry]
    /\ \E r \in store[wk[w].world] :
         /\ r.old_value = LastLog(w).OldValue
         /\ r.new_value # LastLog(w).NewValue

\* ------------------------------------------------ the de-identifier loop

\* env.queue_max_attemps, as set by RPACS_SQS_MAX_ATTEMPTS
queue_max_attemps == 2

\* The messages put on the queue
MaxMessages == 2

\* The calls to SQS that fail, at most
MaxFaults == 1

\* A key a message does not have
NoKey == "absent"

\* The body of a message. EventType is "malformed" when json.loads or
\* msg['EventType'] raises; the other keys are NoKey or their value.
Body(event_type, source, skip, retry, destination) ==
  [EventType |-> event_type, Source |-> source, Skip |-> skip, Retry |-> retry,
   Destination |-> destination]

OrthancInstances == {"a", "b"}

Bodies ==
  {Body("malformed", NoKey, NoKey, NoKey, NoKey),
   Body("Other", NoKey, NoKey, NoKey, NoKey),
   Body("NewDICOM", NoKey, NoKey, NoKey, NoKey),
   Body("NewDICOM", "s3://in/f.dcm", NoKey, NoKey, NoKey),
   Body("NewDICOM", "orthanc://a", NoKey, NoKey, NoKey),
   Body("NewDICOM", "orthanc://a", NoKey, "false", "s3://out/f.dcm"),
   Body("NewDICOM", "orthanc://a", "true", NoKey, NoKey),
   Body("NewDICOM", "orthanc://b", "false", "true", "s3://out/f.dcm")}

\* dicom_source.startswith('orthanc://')
startswith_orthanc(dicom_source) == dicom_source \in {"orthanc://a", "orthanc://b"}

\* dicom_source.replace('orthanc://', '')
instance_of(dicom_source) ==
  CASE dicom_source = "orthanc://a" -> "a"
    [] dicom_source = "orthanc://b" -> "b"
    [] OTHER -> dicom_source

\* The rows of rpacs_related_msg: for an instance, the message stored with
\* the instructions to process it, or none
NoRow == [found |-> FALSE, msg |-> Body(NoKey, NoKey, NoKey, NoKey, NoKey)]

Row(msg) == [found |-> TRUE, msg |-> msg]

RelatedMessages ==
  {[i \in OrthancInstances |-> NoRow],
   [i \in OrthancInstances |->
      IF i = "a" THEN Row(Body(NoKey, NoKey, "true", NoKey, NoKey)) ELSE NoRow],
   [i \in OrthancInstances |->
      IF i = "a" THEN Row(Body("NewDICOM", "s3://in/f.dcm", NoKey, NoKey, "s3://out/g.dcm"))
      ELSE NoRow]}

\* What the services answer during the processing of one message: the load
\* of the configuration file, the download from Orthanc, what
\* deidentify_dicom_orthanc gives (a file, None for a skipped instance, or an
\* exception), the write of the output, the query of the database and the
\* deletion in Orthanc
AllFine ==
  [config_ok |-> TRUE, download_ok |-> TRUE, deid |-> "dicom", write_ok |-> TRUE,
   db_ok |-> TRUE, delete_ok |-> TRUE]

\* Every call succeeds, or one of them fails
Outcomes ==
  {AllFine, [AllFine EXCEPT !.deid = "none"], [AllFine EXCEPT !.deid = "raise"],
   [AllFine EXCEPT !.config_ok = FALSE], [AllFine EXCEPT !.download_ok = FALSE],
   [AllFine EXCEPT !.write_ok = FALSE], [AllFine EXCEPT !.db_ok = FALSE],
   [AllFine EXCEPT !.delete_ok = FALSE],
   [AllFine EXCEPT !.deid = "none", !.delete_ok = FALSE]}

\* process_new_dicom_orthanc: whether it raised, and where the output went.
\* Without Destination in the message the names dicom_file and location are
\* not defined (NameError), which the handler turns into 'Failed the write
\* the de-identified DICOM file'.
process_new_dicom_orthanc(src_instance_id, msg, orthanc_db, o) ==
  IF ~o.config_ok THEN [raised |-> TRUE, wrote |-> NoKey]
  ELSE IF src_instance_id \notin orthanc_db \/ ~o.download_ok
  THEN [raised |-> TRUE, wrote |-> NoKey]
  ELSE IF o.deid = "raise" THEN [raised |-> TRUE, wrote |-> NoKey]
  ELSE IF o.deid = "none" THEN [raised |-> FALSE, wrote |-> NoKey]
  ELSE IF msg.Destination # NoKey /\ o.write_ok
  THEN [raised |-> FALSE, wrote |-> msg.Destination]
  ELSE [raised |-> TRUE, wrote |-> NoKey]

\* client.src_orthanc.delete_instance(instance_id): the instances left, and
\* whether the request raised
delete_instance(orthanc_db, instance_id, o) ==
  IF instance_id \in orthanc_db /\ o.delete_ok
  THEN [raised |-> FALSE, orthanc |-> orthanc_db \ {instance_id}]
  ELSE [raised |-> TRUE, orthanc |-> orthanc_db]

\* The messages a second producer puts on the queue
LaterBodies ==
  {Body("malformed", NoKey, NoKey, NoKey, NoKey),
   Body("NewDICOM", "orthanc://a", NoKey, NoKey, NoKey),
   Body("NewDICOM", "orthanc://b", "false", "true", "s3://out/f.dcm")}

\* The rows of rpacs_related_msg and env.preserve_files of a deployment
Deployments ==
  {<<db_msg, "no">> : db_msg \in RelatedMessages}
    \cup {<<[i \in OrthancInstances |-> NoRow], preserve_files>> :
            preserve_files \in {"No", "yes"}}

\* What is kept of one call of process_new_dicom: the message it went on
\* with, the result of process_new_dicom_orthanc ("none" when it was not
\* called), whether the call raised and the instances left in Orthanc
DicomResult(msg, result, has_raised, orthanc_db) ==
  [msg |-> msg, result |-> result, raised |-> has_raised, orthanc |-> orthanc_db]

\* A plausible slip: the original is deleted whatever the processing gave.
process_new_dicom_delete_anyway(msg, orthanc_db, db_msg, preserve_files, o) ==
  IF msg.Source = NoKey THEN DicomResult(msg, "none", FALSE, orthanc_db)
  ELSE IF ~startswith_orthanc(msg.Source) THEN DicomResult(msg, "none", TRUE, orthanc_db)
  ELSE
    LET instance_id == instance_of(msg.Source)
        previous_msg == db_msg[instance_id]
        effective == IF previous_msg.found
                     THEN [previous_msg.msg EXCEPT !.Source = msg.Source] ELSE msg
        r == process_new_dicom_orthanc(instance_id, effective, orthanc_db, o)
        d == delete_instance(orthanc_db, instance_id, o)
    IN IF ~o.db_ok THEN DicomResult(msg, "none", TRUE, orthanc_db)
       ELSE IF effective.Skip = "true"
       THEN DicomResult(effective, "none", d.raised, d.orthanc)
       ELSE DicomResult(effective, IF r.raised THEN "raised" ELSE "completed",
                        r.raised \/ d.raised, d.orthanc)

\* process_new_dicom(msg). A source outside of Orthanc always raises: after
\* load_file, rpacs_util.s3_write_file does not exist (AttributeError).
process_new_dicom(msg, orthanc_db, db_msg, preserve_files, o) ==
  IF msg.Source = NoKey THEN DicomResult(msg, "none", FALSE, orthanc_db)
  ELSE IF ~startswith_orthanc(msg.Source) THEN DicomResult(msg, "none", TRUE, orthanc_db)
  ELSE
    LET instance_id == instance_of(msg.Source)
        previous_msg == db_msg[instance_id]
        effective == IF previous_msg.found
                     THEN [previous_msg.msg EXCEPT !.Source = msg.Source] ELSE msg
        r == process_new_dicom_orthanc(instance_id, effective, orthanc_db, o)
        d == delete_instance(orthanc_db, instance_id, o)
    IN IF ~o.db_ok THEN DicomResult(msg, "none", TRUE, orthanc_db)
       ELSE IF effective.Skip = "true"
       THEN DicomResult(effective, "none", d.raised, d.orthanc)
       ELSE IF r.raised THEN DicomResult(effective, "raised", TRUE, orthanc_db)
       ELSE IF lower(preserve_files) = "no"
       THEN DicomResult(effective, "completed", d.raised, d.orthanc)
       ELSE DicomResult(effective, "completed", FALSE, orthanc_db)

\* process_message(msg_str): whether it raised, and the call of
\* process_new_dicom it made
process_message(body, orthanc_db, db_msg, preserve_files, o) ==
  IF body.EventType # "NewDICOM"
  THEN [raised |-> FALSE, called |-> FALSE,
        dicom |-> DicomResult(body, "none", FALSE, orthanc_db)]
  ELSE LET d == process_new_dicom(body, orthanc_db, db_msg, preserve_files, o)
       IN [raised |-> d.raised /\ ~(body.Retry = "false"), called |-> TRUE, dicom |-> d]

\* A plausible slip: the message is given up at the limit, not after it.
too_many_attempts_at_limit(nb_attempts) == nb_attempts >= queue_max_attemps

\* `if nb_attempts > env.queue_max_attemps`
too_many_attempts(nb_attempts) == nb_attempts > queue_max_attemps

\* No message handled yet
NoHandling ==
  [id |-> 0, nb_attempts |-> 0, processed |-> FALSE, raised |-> FALSE,
   delete_message |-> FALSE, called |-> FALSE,
   dicom |-> DicomResult(Body(NoKey, NoKey, NoKey, NoKey, NoKey), "none", FALSE, {})]

\* The sequences in which SQS can return the messages of a set
Orders(S) ==
  {<<m>> : m \in S} \cup ({<<m, n>> : m, n \in S} \ {<<m, m>> : m \in S})

InitQueue ==
  /\ sc = NoScope
  /\ px = NoPixels
  /\ heap = NoHeap
  /\ tree = NoTree
  /\ txt = NoText
  /\ cand = NoCandidate
  /\ pat = NoPattern
  /\ qry = NoQuery
  /\ \E first \in Bodies, later \in [2..MaxMessages -> LaterBodies], d \in Deployments :
       que = [messages |-> [m \in 1..MaxMessages |->
                              [Body |-> IF m = 1 THEN first ELSE later[m],
                               count |-> 0, state |-> "visible"]],
              batch |-> <<>>,
              processed |-> [m \in 1..MaxMessages |-> 0],
              orthanc |-> OrthancInstances,
              db_msg |-> d[1],
              preserve_files |-> d[2],
              faults |-> MaxFaults,
              last |-> NoHandling]
  /\ pool = NoPooler
  /\ config = 1
  /\ store = [world \in Worlds |-> {}]
  /\ tape = <<>>
  /\ orthanc = AnyAnswer
  /\ wk = IdleWorkers

\* client.sqs.receive_message(...): SQS returns some of the visible messages,
\* counts one more receive for each and hides them for queue_timeout
\* seconds; or the call raises and the loop goes on
Receive ==
  /\ que.batch = <<>>
  /\ \/ /\ que.faults > 0
        /\ que' = [que EXCEPT !.faults = @ - 1]
     \/ \E batch \in Orders({m \in DOMAIN que.messages : que.messages[m].state = "visible"}) :
          que' = [que EXCEPT
                    !.batch = batch,
                    !.messages = [m \in DOMAIN @ |->
                                    IF m \in Range(batch)
                                    THEN [@[m] EXCEPT !.count = @ + 1, !.state = "inflight"]
                                    ELSE @[m]]]
  /\ UNCHANGED <<sc, px, heap, tree, txt, cand, pat, qry, pool, config, store, tape, orthanc, wk>>

\* One turn of `for message in messages`: the message is given up after
\* queue_max_attemps receives, or processed and deleted if process_message
\* returns; delete_message itself can raise
Handle ==
  /\ que.batch # <<>>
  /\ \E o \in Outcomes, sqs_ok \in (IF que.faults > 0 THEN BOOLEAN ELSE {TRUE}) :
       LET m == Head(que.batch)
           message == que.messages[m]
           nb_attempts == message.count
           given_up == too_many_attempts(nb_attempts)
           r == process_message(message.Body, que.orthanc, que.db_msg, que.preserve_files, o)
           delete_message == given_up \/ ~r.raised
       IN que' = [que EXCEPT
                    !.batch = Tail(@),
                    !.messages[m].state = IF delete_message /\ sqs_ok THEN "deleted" ELSE @,
                    !.processed[m] = IF given_up THEN @ ELSE @ + 1,
                    !.orthanc = IF given_up THEN @ ELSE r.dicom.orthanc,
                    !.faults = IF delete_message /\ ~sqs_ok THEN @ - 1 ELSE @,
                    !.last = [id |-> m, nb_attempts |-> nb_attempts,
                              processed |-> ~given_up,
                              raised |-> ~given_up /\ r.raised,
                              delete_message |-> delete_message,
                              called |-> ~given_up /\ r.called,
                              dicom |-> IF given_up THEN NoHandling.dicom ELSE r.dicom]]
  /\ UNCHANGED <<sc, px, heap, tree, txt, cand, pat, qry, pool, config, store, tape, orthanc, wk>>

\* The visibility timeout of a message that was received and not deleted
\* ends: SQS will return it again
Timeout(m) ==
  /\ que.messages[m].state = "inflight"
  /\ m \notin Range(que.batch)
  /\ que' = [que EXCEPT !.messages[m].state = "visible"]
  /\ UNCHANGED <<sc, px, heap, tree, txt, cand, pat, qry, pool, config, store, tape, orthanc, wk>>

NextQueue == Receive \/ Handle \/ (\E m \in 1..MaxMessages : Timeout(m))

SpecQueue == InitQueue /\ [][NextQueue]_vars

\* The loop runs until the program is interrupted, and SQS ends every
\* visibility timeout
SpecQueueFair ==
  /\ SpecQueue
  /\ WF_vars(Receive)
  /\ WF_vars(Handle)
  /\ \A m \in 1..MaxMessages : WF_vars(Timeout(m))

\* A message was handled in this step
Handled == que.batch # <<>> /\ que'.batch = Tail(que.batch)

\* process_message returned for the message handled last: it was not a
\* NewDICOM event, or process_new_dicom returned, or it raised for a message
\* with Retry=false
ReturnedAsStated(l, body) ==
  \/ body.EventType # "NewDICOM"
  \/ ~l.dicom.raised
  \/ body.Retry = "false"

C37_Step ==
  Handled =>
    LET m == Head(que.batch)
        l == que'.last
        body == que.messages[m].Body
        count == que.messages[m].count
        returned == l.processed /\ ~l.raised
    IN /\ l.id = m
       /\ l.delete_message <=> (count > queue_max_attemps \/ returned)
       /\ count > queue_max_attemps =>
            ~l.processed /\ que'.processed[m] = que.processed[m]
       /\ count <= queue_max_attemps =>
            l.processed /\ que'.processed[m] = que.processed[m] + 1
       /\ l.processed => (returned <=> ReturnedAsStated(l, body))
       /\ que'.messages[m].state = "deleted" => l.delete_message
       /\ (l.delete_message /\ que'.faults = que.faults) => que'.messages[m].state = "deleted"
       /\ ~l.delete_message => que'.messages[m].state = "inflight"

\* Every message was removed from the queue
QueueEmpty == \A m \in DOMAIN que.messages : que.messages[m].state = "deleted"

\* C37: the consumer deletes a received message if and only if its receive
\* count exceeds queue_max_attemps (then without processing it) or
\* process_message returns without raising (success, malformed message, or a
\* failed NewDICOM message with Retry=false); a message whose processing
\* raises stays on the queue and is delivered again. So a message is
\* processed at most queue_max_attemps times and is removed in the end.
C37_Consumer ==
  /\ [][C37_Step]_vars
  /\ [](\A m \in DOMAIN que.messages : que.processed[m] <= queue_max_attemps)
  /\ <>[]QueueEmpty

\* C37, its case: a message was processed queue_max_attemps times, each time
\* with an exception, received once more and deleted without processing;
\* the other message was deleted after process_message returned
C37_Witness ==
  /\ QueueEmpty
  /\ que.last.id # 0 /\ ~que.last.processed /\ que.last.delete_message
  /\ que.last.nb_attempts > queue_max_attemps
  /\ que.processed[que.last.id] = queue_max_attemps
  /\ \E m \in DOMAIN que.messages :
       /\ m # que.last.id
       /\ que.processed[m] > 0
       /\ que.messages[m].count <= queue_max_attemps

\* C37, the message that fails once and is not tried again: a NewDICOM
\* message with Retry=false whose processing raised was deleted
C37_NoRetry ==
  /\ que.last.processed /\ que.last.dicom.raised /\ ~que.last.raised
  /\ que.last.delete_message
  /\ que.messages[que.last.id].state = "deleted"
  /\ que.messages[que.last.id].count = 1

\* The instances deleted from the source Orthanc in this step
DeletedNow == que.orthanc \ que'.orthanc

C38_Step ==
  /\ DeletedNow # {} =>
       LET l == que'.last
       IN /\ Handled /\ l.processed /\ l.called
          /\ DeletedNow = {instance_of(l.dicom.msg.Source)}
          /\ \/ l.dicom.msg.Skip = "true"
             \/ /\ l.dicom.result = "completed"
                /\ lower(que.preserve_files) = "no"
  /\ (Handled /\ que'.last.dicom.result = "raised") =>
       LET l == que'.last
           m == Head(que.batch)
       IN /\ DeletedNow = {}
          /\ l.dicom.raised
          /\ que.messages[m].Body.Retry # "false" =>
               /\ l.raised /\ ~l.delete_message
               /\ que'.messages[m].state = "inflight"

\* C38: the original instance is deleted from the source Orthanc only when
\* the message processed for it has Skip=true, or when
\* process_new_dicom_orthanc completed without error and preserve_files is
\* 'no'; when the de-identification or the writing of the output fails, the
\* instance is not deleted and the error leaves process_new_dicom, so that
\* the message is tried again.
C38_Original == [][C38_Step]_vars

\* C38, its case: one instance was deleted after process_new_dicom_orthanc
\* wrote its output and preserve_files was 'no'; the processing of the other
\* failed at the writing, it is still in Orthanc and its message still on
\* the queue
C38_Witness ==
  /\ lower(que.preserve_files) = "no"
  /\ \E i \in OrthancInstances, m, n \in DOMAIN que.messages :
       /\ i \notin que.orthanc
       /\ que.messages[m].Body.Source = "orthanc://b" /\ i = "b"
       /\ que.messages[m].state = "deleted"
       /\ que.messages[n].Body.Source = "orthanc://a"
       /\ que.messages[n].Body.Skip = NoKey
       /\ ~que.db_msg["a"].found
       /\ que.last.id = n /\ que.last.dicom.result = "raised"
       /\ que.messages[n].state = "inflight"
       /\ "a" \in que.orthanc

\* C38, with Skip: the instance of a message with Skip=true was deleted
\* without processing, with preserve_files other than 'no'
C38_Skipped ==
  /\ lower(que.preserve_files) # "no"
  /\ que.last.called /\ que.last.dicom.msg.Skip = "true"
  /\ que.last.dicom.result = "none"
  /\ "a" \notin que.orthanc

\* ---------------------------------------------------- the change pooler

\* The changes Orthanc records, at most
MaxChanges == 3

\* The `limit` of get_changes
limit == 2

\* The times Orthanc loses its database, at most
MaxResets == 1

\* The calls to Orthanc, to SQS or to the database that fail, at most
MaxFailures == 2

ChangeTypes == {"NewInstance", "StableStudy"}

\* OrthancClient.get_changes(from_seq): GET /changes?since=from_seq&limit=limit
\* on the log of Orthanc, whose changes are numbered from 1; the changes
\* after from_seq, and the Seq of the last change of the log
get_changes(log, from_seq) ==
  [changes |-> [i \in 1..Max(0, Min(limit, Len(log) - from_seq)) |->
                  [Seq |-> from_seq + i, ChangeType |-> log[from_seq + i]]],
   last_seq |-> Len(log)]

\* A plausible slip: the change whose message could not be sent is counted
\* as handled.
RECURSIVE for_change_in_changes_skip_failed(_, _, _, _)
for_change_in_changes_skip_failed(changes, i, new_last_seq, failing) ==
  IF i > Len(changes) THEN [new_last_seq |-> new_last_seq, sent |-> {}, failed |-> 0]
  ELSE IF changes[i].ChangeType = "NewInstance" /\ changes[i].Seq = failing
  THEN [new_last_seq |-> changes[i].Seq, sent |-> {}, failed |-> changes[i].Seq]
  ELSE LET rest == for_change_in_changes_skip_failed(changes, i + 1, changes[i].Seq, failing)
       IN [rest EXCEPT !.sent = @ \cup (IF changes[i].ChangeType = "NewInstance"
                                         THEN {changes[i].Seq} ELSE {})]

\* `for change in changes`: a message is sent for every NewInstance change,
\* and the loop ends at the change whose message could not be sent
\* (send_sqs_message returns False for the change numbered `failing`)
RECURSIVE for_change_in_changes(_, _, _, _)
for_change_in_changes(changes, i, new_last_seq, failing) ==
  IF i > Len(changes) THEN [new_last_seq |-> new_last_seq, sent |-> {}, failed |-> 0]
  ELSE IF changes[i].ChangeType = "NewInstance" /\ changes[i].Seq = failing
  THEN [new_last_seq |-> new_last_seq, sent |-> {}, failed |-> changes[i].Seq]
  ELSE LET rest == for_change_in_changes(changes, i + 1, changes[i].Seq, failing)
       IN [rest EXCEPT !.sent = @ \cup (IF changes[i].ChangeType = "NewInstance"
                                         THEN {changes[i].Seq} ELSE {})]

\* No iteration yet
NoIteration == [ran |-> FALSE, got |-> FALSE, fetched |-> 0, failed |-> 0, updated |-> "no"]

InitPooler ==
  /\ sc = NoScope
  /\ px = NoPixels
  /\ heap = NoHeap
  /\ tree = NoTree
  /\ txt = NoText
  /\ cand = NoCandidate
  /\ pat = NoPattern
  /\ qry = NoQuery
  /\ que = NoQueue
  /\ pool = [log |-> <<>>, born |-> 0, epoch |-> 0, sent |-> {},
             current_last_seq |-> 0, db_last_seq |-> 0,
             db_update_orthanc_failed |-> FALSE,
             failures |-> MaxFailures, last |-> NoIteration]
  /\ config = 1
  /\ store = [world \in Worlds |-> {}]
  /\ tape = <<>>
  /\ orthanc = AnyAnswer
  /\ wk = IdleWorkers

\* Orthanc records a change
NewChange ==
  /\ pool.born < MaxChanges
  /\ \E type \in ChangeTypes :
       pool' = [pool EXCEPT !.log = Append(@, type), !.born = @ + 1]
  /\ UNCHANGED <<sc, px, heap, tree, txt, cand, pat, qry, que, config, store, tape, orthanc, wk>>

\* Orthanc, run without persistent storage, loses its database: the log is
\* empty and the change IDs start again
Reinitialize ==
  /\ pool.epoch < MaxResets
  /\ pool.log # <<>>
  /\ pool' = [pool EXCEPT !.log = <<>>, !.epoch = @ + 1]
  /\ UNCHANGED <<sc, px, heap, tree, txt, cand, pat, qry, que, config, store, tape, orthanc, wk>>

\* The program starts again: current_last_seq is read from the database
Restart ==
  /\ pool' = [pool EXCEPT !.current_last_seq = pool.db_last_seq,
                          !.db_update_orthanc_failed = FALSE,
                          !.last = NoIteration]
  /\ UNCHANGED <<sc, px, heap, tree, txt, cand, pat, qry, que, config, store, tape, orthanc, wk>>

\* One iteration of the loop of main; get_changes, one send_message or the
\* update of the database can fail
Iterate ==
  /\ \E get_ok \in BOOLEAN, db_ok \in BOOLEAN, failing \in 0..Len(pool.log) :
       LET got == get_changes(pool.log, pool.current_last_seq)
           loop == IF got.last_seq < pool.current_last_seq
                   THEN [new_last_seq |-> 0, sent |-> {}, failed |-> 0]
                   ELSE for_change_in_changes(got.changes, 1, pool.current_last_seq, failing)
           update == loop.new_last_seq # pool.current_last_seq
                       \/ pool.db_update_orthanc_failed
           used == (IF get_ok THEN 0 ELSE 1)
                     + (IF get_ok /\ loop.failed # 0 THEN 1 ELSE 0)
                     + (IF get_ok /\ update /\ ~db_ok THEN 1 ELSE 0)
       IN /\ used <= pool.failures
          /\ failing # 0 => get_ok /\ loop.failed = failing
          /\ ~db_ok => get_ok /\ update
          /\ pool' =
               IF ~get_ok
               THEN [pool EXCEPT !.failures = @ - used,
                                 !.last = [NoIteration EXCEPT !.ran = TRUE]]
               ELSE [pool EXCEPT
                       !.sent = @ \cup {<<pool.epoch, seq>> : seq \in loop.sent},
                       !.current_last_seq = IF update THEN loop.new_last_seq ELSE @,
                       !.db_last_seq = IF update /\ db_ok THEN loop.new_last_seq ELSE @,
                       !.db_update_orthanc_failed = IF update THEN ~db_ok ELSE @,
                       !.failures = @ - used,
                       !.last = [ran |-> TRUE, got |-> TRUE, fetched |-> Len(got.changes),
                                 failed |-> loop.failed,
                                 updated |-> IF ~update THEN "no"
                                             ELSE IF db_ok THEN "done" ELSE "failed"]]
  /\ UNCHANGED <<sc, px, heap, tree, txt, cand, pat, qry, que, config, store, tape, orthanc, wk>>

NextPooler == NewChange \/ Reinitialize \/ Restart \/ Iterate

SpecPooler == InitPooler /\ [][NextPooler]_vars

\* The loop runs until the program is interrupted
SpecPoolerFair == SpecPooler /\ WF_vars(Iterate)

\* Every NewInstance change of the log was sent to the queue
AllSent ==
  \A seq \in 1..Len(pool.log) :
    pool.log[seq] = "NewInstance" => <<pool.epoch, seq>> \in pool.sent

\* After the step, every NewInstance change of the log up to `cursor` was sent
SentUpTo(cursor) ==
  \A seq \in 1..Min(cursor, Len(pool'.log)) :
    pool'.log[seq] = "NewInstance" => <<pool'.epoch, seq>> \in pool'.sent

\* The cursor in memory or in the database moves forward only over changes
\* that were sent
AdvanceStep ==
  /\ pool'.current_last_seq > pool.current_last_seq => SentUpTo(pool'.current_last_seq)
  /\ pool'.db_last_seq > pool.db_last_seq => SentUpTo(pool'.db_last_seq)

\* An iteration in which a message could not be sent leaves the cursor just
\* before the change of that message, which is fetched first the next time
SendFailureStep ==
  (pool'.failures < pool.failures /\ pool'.last.failed # 0) =>
    /\ pool'.current_last_seq = pool'.last.failed - 1
    /\ <<pool.epoch, pool'.last.failed>> \notin (pool'.sent \ pool.sent)
    /\ get_changes(pool'.log, pool'.current_last_seq).changes[1].Seq = pool'.last.failed
    /\ pool'.db_last_seq <= pool'.current_last_seq

\* After a failed update of the database, the next iteration that gets the
\* changes updates the database whether the cursor moved or not
RetryStep ==
  (/\ pool.db_update_orthanc_failed
   /\ pool'.last.ran /\ pool'.last.got
   /\ pool'.log = pool.log /\ pool' # pool) =>
    /\ pool'.last.updated # "no"
    /\ pool'.last.updated = "done" =>
         pool'.db_last_seq = pool'.current_last_seq /\ ~pool'.db_update_orthanc_failed
    /\ pool'.last.updated = "failed" =>
         pool'.db_last_seq = pool.db_last_seq /\ pool'.db_update_orthanc_failed

\* C39: neither current_last_seq nor the last_seq of the database ever
\* advances past a NewInstance change whose message was not sent; after a
\* send failure the cursor stays at the Seq of the last change handled before
\* it, so that the failed change and the later ones are fetched again; a
\* failed update of the database is made again at the next iteration; and if
\* the sends succeed in the end, every NewInstance change is sent in the end.
C39_Cursor ==
  /\ [][AdvanceStep /\ SendFailureStep /\ RetryStep]_vars
  /\ <>[]AllSent

\* C39, as long as Orthanc keeps its database: the same, for the changes of
\* a log that was never emptied
C39_SameLog ==
  /\ [][pool'.epoch = 0 => (AdvanceStep /\ SendFailureStep /\ RetryStep)]_vars
  /\ (<>(pool.epoch > 0) \/ <>[]AllSent)

\* C39, the send failure and the retry alone, whatever happens to Orthanc
C39_FailureAndRetry == [][SendFailureStep /\ RetryStep]_vars

\* C39, the cursor alone
C39_Advance == [][AdvanceStep]_vars

\* C39, the sends alone
C39_Sent == <>[]AllSent

\* C39, its case: Orthanc lost its database, recorded as many changes as the
\* cursor had counted, and the iterations that followed sent none of them
C39_Missed ==
  /\ pool.epoch > 0
  /\ pool.last.ran /\ pool.last.got /\ pool.last.failed = 0
  /\ pool.failures = MaxFailures
  /\ pool.current_last_seq = Len(pool.log)
  /\ pool.db_last_seq = Len(pool.log)
  /\ ~pool.db_update_orthanc_failed
  /\ \E seq \in 1..Len(pool.log) :
       pool.log[seq] = "NewInstance" /\ <<pool.epoch, seq>> \notin pool.sent

\* C39, after the failures: MaxFailures calls failed, Orthanc kept its
\* database, and every change was sent and the database holds the last Seq
C39_Recovered ==
  /\ pool.epoch = 0
  /\ pool.failures = 0
  /\ Len(pool.log) = MaxChanges
  /\ AllSent
  /\ pool.db_last_seq = Len(pool.log)
  /\ \E seq \in 1..Len(pool.log) : pool.log[seq] = "NewInstance"

\* ------------------------------------------------------ the masking alone

\* The boxes of one entry: at most MaxBoxes of them
MaxBoxes == 1

\* (left, top, right, bottom) with left < right and top < bottom, as the
\* validation of the configuration and get_box_coordinates give them; some
\* reach outside of the image
Boxes ==
  {<<1, 1, 3, 3>>, <<0, 0, 2, 2>>, <<-1, -1, 1, 2>>, <<2, 1, 5, 6>>, <<0, 0, 4, 4>>,
   <<3, 0, 4, 1>>}

BoxLists == UNION {[1..n -> Boxes] : n \in 0..MaxBoxes}

\* The batches of boxes the OCR gives
OcrBatches == {<<>>, <<<<0, 0, 2, 2>>>>, <<<<2, 1, 5, 6>>, <<-1, -1, 1, 2>>>>}

\* (frames, rows, columns, samples per pixel)
Shapes ==
  {<<1, 4, 4, 1>>, <<1, 2, 3, 3>>, <<2, 2, 3, 1>>, <<2, 2, 2, 3>>, <<2, 3, 1, 1>>}

Dtypes == {"uint8", "int8", "uint16"}

\* The value of the k-th sample of the images of the model
Fill(dtype, k) ==
  CASE dtype = "uint8" -> 255
    [] dtype = "int8" -> (-3) - (k % 2)
    [] OTHER -> 1000 - (k % 2)

\* The pixel module of an uncompressed instance
Image(shape, dtype) ==
  [NumberOfFrames |-> shape[1], Rows |-> shape[2], Columns |-> shape[3],
   SamplesPerPixel |-> shape[4],
   BitsAllocated |-> itemsize(dtype) * 8, BitsStored |-> itemsize(dtype) * 8,
   HighBit |-> itemsize(dtype) * 8 - 1,
   PixelRepresentation |-> IF signed(dtype) THEN 1 ELSE 0,
   PixelData |-> [b \in 1..(prod(shape) * itemsize(dtype)) |->
                    to_bytes(Fill(dtype, (b - 1) \div itemsize(dtype)), dtype)
                      [((b - 1) % itemsize(dtype)) + 1]]]

\* The RemoveBurnedInAnnotations list of an op-set: a Manual entry, an OCR
\* entry and the batch add_box_coordinates appended for it
Entries(manual, from_ocr) ==
  <<[Type |-> "Manual", BoxCoordinates |-> manual], [Type |-> "OCR"],
    [Type |-> "FromOCR", BoxCoordinates |-> from_ocr]>>

InitMask ==
  /\ sc = NoScope
  /\ \E shape \in Shapes, dtype \in Dtypes, manual \in BoxLists, from_ocr \in OcrBatches :
       px = [did |-> {}, dicom |-> Image(shape, dtype), ts |-> Entries(manual, from_ocr)]
  /\ heap = NoHeap
  /\ tree = NoTree
  /\ txt = NoText
  /\ cand = NoCandidate
  /\ pat = NoPattern
  /\ qry = NoQuery
  /\ que = NoQueue
  /\ pool = NoPooler
  /\ config = 1
  /\ store = [world \in Worlds |-> {}]
  /\ tape = <<>>
  /\ orthanc = AnyAnswer
  /\ wk = IdleWorkers

\* The RemoveBurnedInAnnotations section on the image
Mask ==
  /\ "once" \notin px.did
  /\ px' = [f \in DOMAIN px \cup {"once", "masked"} |->
              CASE f = "did" -> px.did \cup {"once"}
                [] f = "once" -> remove_burned_in_annotations(px.dicom, px.ts)
                [] f = "masked" ->
                     IF pixel_array(px.dicom).raised THEN [raised |-> TRUE]
                     ELSE mask_pixels(pixel_array(px.dicom).array, px.dicom.Columns,
                                      px.dicom.Rows, px.dicom.SamplesPerPixel, px.ts)
                [] OTHER -> px[f]]
  /\ UNCHANGED <<sc, heap, tree, txt, cand, pat, qry, que, pool, config, store, tape, orthanc, wk>>

\* The same boxes put on the array that came out of the masking
MaskAgain ==
  /\ "once" \in px.did
  /\ "again" \notin px.did
  /\ ~px.masked.raised
  /\ px' = [f \in DOMAIN px \cup {"again"} |->
              CASE f = "did" -> px.did \cup {"again"}
                [] f = "again" -> mask_pixels(px.masked.array, px.dicom.Columns,
                                              px.dicom.Rows, px.dicom.SamplesPerPixel, px.ts)
                [] OTHER -> px[f]]
  /\ UNCHANGED <<sc, heap, tree, txt, cand, pat, qry, que, pool, config, store, tape, orthanc, wk>>

\* The section on the image with every entry listed twice
MaskTwice ==
  /\ "twice" \notin px.did
  /\ px' = [f \in DOMAIN px \cup {"twice"} |->
              CASE f = "did" -> px.did \cup {"twice"}
                [] f = "twice" -> remove_burned_in_annotations(px.dicom, px.ts \o px.ts)
                [] OTHER -> px[f]]
  /\ UNCHANGED <<sc, heap, tree, txt, cand, pat, qry, que, pool, config, store, tape, orthanc, wk>>

NextMask == Mask \/ MaskAgain \/ MaskTwice

SpecMask == InitMask /\ [][NextMask]_vars

\* A coordinate brought into [0, n-1]
Clamp(v, n) == IF v < 0 THEN 0 ELSE IF v > n - 1 THEN n - 1 ELSE v

\* Some box of the entries, clamped to the image, contains column x of row y
Covered(dicom, ts, x, y) ==
  \E i \in DOMAIN ts :
    /\ "BoxCoordinates" \in DOMAIN ts[i]
    /\ \E j \in DOMAIN ts[i].BoxCoordinates :
         LET box == ts[i].BoxCoordinates[j]
         IN /\ Clamp(box[1], dicom.Columns) <= x /\ x < Clamp(box[3], dicom.Columns)
            /\ Clamp(box[2], dicom.Rows) <= y /\ y < Clamp(box[4], dicom.Rows)

\* The sample s of the pixel at row y and column x of frame f, read from
\* PixelData as the instance declares it
Sample(dicom, f, y, x, s) ==
  LET isz == dicom.BitsAllocated \div 8
      k == ((f * dicom.Rows + y) * dicom.Columns + x) * dicom.SamplesPerPixel + s
  IN from_bytes(SubSeq(dicom.PixelData, k * isz + 1, k * isz + isz), pixel_dtype(dicom))

\* The output of a masking is the input with exactly the covered pixels at 0
MaskedAsStated(in, ts, out) ==
  /\ ~out.raised
  /\ Len(out.dicom.PixelData)
       = in.NumberOfFrames * in.Rows * in.Columns * in.SamplesPerPixel
           * (out.dicom.BitsAllocated \div 8)
  /\ \A f \in 0..(in.NumberOfFrames - 1), y \in 0..(in.Rows - 1),
        x \in 0..(in.Columns - 1), sample \in 0..(in.SamplesPerPixel - 1) :
       Sample(out.dicom, f, y, x, sample)
         = IF Covered(in, ts, x, y) THEN 0 ELSE Sample(in, f, y, x, sample)

\* C15: after the RemoveBurnedInAnnotations section, for every frame and every
\* sample, the pixel at row y and column x is 0 if some rectangle of a
\* configured entry or of an OCR batch, clamped to [0,W-1] x [0,H-1], contains
\* it (left <= x < right, top <= y < bottom), and is the input pixel otherwise.
C15_Masking ==
  "once" \in px.did => MaskedAsStated(px.dicom, px.ts, px.once)

\* C16: masking the masked array again with the same boxes, or masking once
\* with every box listed twice, gives the same pixels as masking once.
C16_Idempotent ==
  /\ "again" \in px.did => px.again = px.masked
  /\ {"once", "twice"} \subseteq px.did => px.twice = px.once

\* C16, its case: an image of several frames and samples was masked with a
\* box from the configuration and another from the OCR, some pixels were put
\* to 0 and others kept; then it was masked again, and with every box twice
C16_Witness ==
  /\ px.did = {"once", "again", "twice"}
  /\ px.dicom.NumberOfFrames > 1 /\ px.dicom.SamplesPerPixel > 1
  /\ ~px.once.raised
  /\ ~px.again.raised
  /\ \E t, u \in DOMAIN px.again.array.at :
       px.again.array.at[t] = 0 /\ px.again.array.at[u] # 0
  /\ px.ts[1].BoxCoordinates # <<>>
  /\ px.ts[3].BoxCoordinates # <<>>
  /\ px.ts[1].BoxCoordinates # px.ts[3].BoxCoordinates
  /\ px.once.dicom.PixelData # px.dicom.PixelData

\* The rectangle of some box of the entries, as written, contains column x
\* of row y
InBox(ts, x, y) ==
  \E i \in DOMAIN ts :
    /\ "BoxCoordinates" \in DOMAIN ts[i]
    /\ \E j \in DOMAIN ts[i].BoxCoordinates :
         LET box == ts[i].BoxCoordinates[j]
         IN /\ box[1] <= x /\ x < box[3]
            /\ box[2] <= y /\ y < box[4]

\* The section gave an output whose PixelData has the length the instance
\* declares
MaskedWhole ==
  /\ "once" \in px.did
  /\ ~px.once.raised
  /\ Len(px.once.dicom.PixelData)
       = px.dicom.NumberOfFrames * px.dicom.Rows * px.dicom.Columns
           * px.dicom.SamplesPerPixel * (px.once.dicom.BitsAllocated \div 8)

\* The pixels of the image that are 0 in every frame and sample of the output
Zeroed(x, y) ==
  \A f \in 0..(px.dicom.NumberOfFrames - 1), sample \in 0..(px.dicom.SamplesPerPixel - 1) :
    Sample(px.once.dicom, f, y, x, sample) = 0

\* C34: for a rectangle (left, top, right, bottom) with left < right and
\* top < bottom, every pixel (x, y) of the image with left <= x < right and
\* top <= y < bottom is 0 after the masking, the pixels of the last column
\* when right >= W and of the last row when bottom >= H included.
C34_FullCoverage ==
  MaskedWhole =>
    \A y \in 0..(px.dicom.Rows - 1), x \in 0..(px.dicom.Columns - 1) :
      InBox(px.ts, x, y) => Zeroed(x, y)

\* C34, what the code does: the pixels of a rectangle that are neither in the
\* last column nor in the last row of the image are 0 after the masking
C34_BeforeBorder ==
  MaskedWhole =>
    \A y \in 0..(px.dicom.Rows - 2), x \in 0..(px.dicom.Columns - 2) :
      InBox(px.ts, x, y) => Zeroed(x, y)

\* C34, its case: a rectangle that reaches the right and the bottom border of
\* the image was masked, and a pixel of the last column inside it kept its
\* value
C34_Border ==
  /\ MaskedWhole
  /\ \E i \in DOMAIN px.ts :
       /\ "BoxCoordinates" \in DOMAIN px.ts[i]
       /\ \E j \in DOMAIN px.ts[i].BoxCoordinates :
            LET box == px.ts[i].BoxCoordinates[j]
            IN /\ box[3] >= px.dicom.Columns /\ box[4] >= px.dicom.Rows
               /\ \E y \in 0..(px.dicom.Rows - 1) :
                    /\ box[2] <= y /\ y < box[4]
                    /\ box[1] <= px.dicom.Columns - 1
                    /\ ~Zeroed(px.dicom.Columns - 1, y)

====
